--------------------------- MODULE ProgramsProofs ---------------------------
(***************************************************************************)
(* Proofs about the smaller programs, each on its own: one_time_init(),    *)
(* the phone book, the editors, the interpreters, traceroute, the echo     *)
(* servers over datagrams, dirn() and basen().  A part gives the inductive *)
(* invariant, a lemma for each operation, and the theorem.                 *)
(***************************************************************************)
EXTENDS OneTimeInit, Phonebook, Editors, PipeShell, Traceroute, DatagramEcho,
        PathNames, SequenceTheorems, FiniteSetTheorems, WellFoundedInduction, TLAPS

(* one_time_init() *)

\* The once_control as its user sets it up satisfies the invariant.
LEMMA OnceInitInv == Init => OnceInv
<1> SUFFICES ASSUME Init PROVE OnceInv
  OBVIOUS
<1>1. TypeOK
  BY DEF Init, TypeOK
<1>2. OnceContract /\ OwnsMutex
  BY DEF Init, OnceContract, OwnsMutex
<1>3. InitTold
  BY DEF Init, InitTold, Leaked
<1> QED
  BY <1>1, <1>2, <1>3 DEF OnceInv

\* Every step of a thread preserves the invariant.
LEMMA OnceStepInv == OnceInv /\ [Next]_vars => OnceInv'
<1> SUFFICES ASSUME OnceInv, [Next]_vars PROVE OnceInv'
  OBVIOUS
<1> USE OnceAssumption DEF OnceInv, Goto, Return
<1>1. ASSUME NEW t \in Threads, Call(t) PROVE OnceInv'
  BY <1>1 DEF Call, TypeOK, OnceContract, OwnsMutex, InitTold, Leaked
<1>2. ASSUME NEW t \in Threads, Lock(t) PROVE OnceInv'
  <2>1. TypeOK' /\ OnceContract' /\ InitTold'
    BY <1>2 DEF Lock, TypeOK, OnceContract, InitTold, Leaked
  <2>2. OwnsMutex'
    BY <1>2 DEF Lock, TypeOK, OwnsMutex, InitTold, Leaked
  <2> QED
    BY <2>1, <2>2
<1>3. ASSUME NEW t \in Threads, TestFirst(t) PROVE OnceInv'
  <2>1. returned = {}
    BY <1>3 DEF TestFirst, OnceContract, InitTold
  <2>2. TypeOK' /\ OnceContract'
    BY <1>3, <2>1 DEF TestFirst, TypeOK, OnceContract, InitTold
  <2>3. OwnsMutex'
    BY <1>3 DEF TestFirst, TypeOK, OwnsMutex, Leaked
  <2>4. InitTold'
    BY <1>3, <2>1 DEF TestFirst, TypeOK, OwnsMutex, InitTold, Leaked
  <2> QED
    BY <2>2, <2>3, <2>4
<1>4. ASSUME NEW t \in Threads, TestAgain(t) PROVE OnceInv'
  <2>1. /\ mutex = t /\ mutex # Nobody /\ ready
        /\ \A u \in Threads : pc'[u] \notin {"test", "init", "unlock"}
    BY <1>4 DEF TestAgain, TypeOK, OwnsMutex, InitTold
  <2>2. <<t, calls[t], 1>> \in Threads \X Nat \X {0, 1}
    BY DEF TypeOK
  <2>3. TypeOK'
    BY <1>4, <2>2 DEF TestAgain, TypeOK
  <2>4. OnceContract' /\ OwnsMutex' /\ InitTold'
    BY <1>4, <2>1 DEF TestAgain, OnceContract, OwnsMutex, InitTold, Leaked
  <2> QED
    BY <2>3, <2>4
<1>5. ASSUME NEW t \in Threads, InitReturns(t) PROVE OnceInv'
  BY <1>5 DEF InitReturns, TypeOK, OnceContract, OwnsMutex, InitTold, Leaked
<1>6. ASSUME NEW t \in Threads, Unlock(t) PROVE OnceInv'
  <2>1. /\ mutex = t /\ ready /\ indicator /\ returned = {}
        /\ \A u \in Threads : pc'[u] \notin {"test", "init", "unlock"}
    BY <1>6 DEF Unlock, TypeOK, OwnsMutex, InitTold
  <2>2. <<t, calls[t], 0>> \in Threads \X Nat \X {0, 1}
    BY DEF TypeOK
  <2>3. TypeOK'
    BY <1>6, <2>2 DEF Unlock, TypeOK
  <2>4. ~Leaked'
    <3>1. returned' = {<<t, calls[t], 0>>}
      BY <1>6, <2>1 DEF Unlock
    <3>2. <<t, calls[t], 0>>[3] # 1
      OBVIOUS
    <3> QED
      BY <3>1, <3>2 DEF Leaked
  <2>5. OnceContract' /\ OwnsMutex' /\ InitTold'
    BY <1>6, <2>1, <2>4 DEF Unlock, OnceContract, OwnsMutex, InitTold
  <2> QED
    BY <2>3, <2>5
<1>7. CASE UNCHANGED vars
  BY <1>7 DEF vars, TypeOK, OnceContract, OwnsMutex, InitTold, Leaked
<1> QED
  BY <1>1, <1>2, <1>3, <1>4, <1>5, <1>6, <1>7 DEF Next, ThreadNext

\* init() runs at most once and every answer comes after it has returned, for
\* any number of threads and of calls (oni.c:4-22).
THEOREM OnceHolds == Spec => []OnceContract
<1>1. OnceInv => OnceContract
  BY DEF OnceInv
<1> QED
  BY <1>1, OnceInitInv, OnceStepInv, PTL DEF Spec

----------------------------------------------------------------------------
(* The phone book *)

\* The book and what the user believes to have are sequences of records.
BookTypes ==
  /\ subs \in Seq([id : Nat, who : People, number : Phones])
  /\ truth \in Seq([who : People, number : Phones, behind : Nat])
  /\ strayed \in BOOLEAN

BookInv == BookTypes /\ BookRight

\* The book starts empty.
LEMMA BookInitInv == BookInit => BookInv
<1> SUFFICES ASSUME BookInit PROVE BookInv
  OBVIOUS
<1>1. /\ subs \in Seq([id : Nat, who : People, number : Phones]) /\ amt = 0
      /\ truth \in Seq([who : People, number : Phones, behind : Nat]) /\ Len(truth) = 0
  BY DEF BookInit, amt
<1>2. strayed \in BOOLEAN
  BY Zenon DEF BookInit
<1>3. BookRight
  BY <1>1 DEF BookRight
<1> QED
  BY <1>1, <1>2, <1>3 DEF BookInv, BookTypes

\* RemoveAt() takes out one element: those before it stay where they are and
\* those behind it move up.
LEMMA OneTakenOut ==
  ASSUME NEW S, NEW s \in Seq(S), NEW p \in 1..Len(s)
  PROVE  /\ RemoveAt(s, p) \in Seq(S)
         /\ Len(RemoveAt(s, p)) = Len(s) - 1
         /\ \A j \in 1..(Len(s) - 1) :
              RemoveAt(s, p)[j] = IF j < p THEN s[j] ELSE s[j + 1]
<1> DEFINE a == SubSeq(s, 1, p - 1)
           b == SubSeq(s, p + 1, Len(s))
<1>1. /\ a \in Seq(S) /\ Len(a) = p - 1
      /\ \A j \in 1..(p - 1) : a[j] = s[j]
  BY SubSeqProperties
<1>2. /\ b \in Seq(S) /\ Len(b) = Len(s) - p
      /\ \A j \in 1..(Len(s) - p) : b[j] = s[p + j]
  <2>1. \A j \in (p + 1)..Len(s) : s[j] \in S
    BY ElementOfSeq
  <2>2. b = [i \in 1..(Len(s) - p) |-> s[p + i]]
    OBVIOUS
  <2> QED
    BY <2>1, <2>2
<1>3. /\ a \o b \in Seq(S)
      /\ Len(a \o b) = Len(a) + Len(b)
      /\ \A j \in 1..(Len(a) + Len(b)) :
           (a \o b)[j] = IF j <= Len(a) THEN a[j] ELSE b[j - Len(a)]
  BY <1>1, <1>2, ConcatProperties
<1> HIDE DEF a, b
<1>4. ASSUME NEW j \in 1..(Len(s) - 1)
      PROVE  (a \o b)[j] = IF j < p THEN s[j] ELSE s[j + 1]
  <2>1. (a \o b)[j] = IF j <= p - 1 THEN a[j] ELSE b[j - (p - 1)]
    BY <1>1, <1>2, <1>3
  <2>2. CASE j < p
    BY <2>1, <2>2, <1>1
  <2>3. CASE ~(j < p)
    <3>1. j - (p - 1) \in 1..(Len(s) - p) /\ p + (j - (p - 1)) = j + 1
      BY <2>3
    <3> QED
      BY <2>1, <2>3, <3>1, <1>2, SMTT(60)
  <2> QED
    BY <2>2, <2>3
<1>5. RemoveAt(s, p) = a \o b
  BY Zenon DEF RemoveAt, a, b
<1>6. Len(a) + Len(b) = Len(s) - 1
  BY <1>1, <1>2
<1> QED
  BY <1>3, <1>4, <1>5, <1>6

\* A record is added at the end of the book, and of what was entered.
LEMMA AddKeepsBook ==
  ASSUME BookInv, NEW w \in People, NEW n \in Phones, add_sub(w, n)
  PROVE  BookInv'
<1> USE DEF BookInv, BookTypes
<1> DEFINE new == [id |-> amt, who |-> w, number |-> n]
           told1 == [who |-> w, number |-> n, behind |-> 0]
<1>1. amt \in Nat /\ Len(truth) \in Nat
  BY DEF amt
<1>2. /\ new \in [id : Nat, who : People, number : Phones]
      /\ told1 \in [who : People, number : Phones, behind : Nat]
      /\ new.id = amt /\ new.who = told1.who /\ new.number = told1.number
  BY <1>1
<1> HIDE DEF new, told1
<1>3. /\ subs' \in Seq([id : Nat, who : People, number : Phones])
      /\ Len(subs') = Len(subs) + 1
      /\ \A k \in 1..Len(subs) : subs'[k] = subs[k]
      /\ subs'[Len(subs) + 1] = new
  BY <1>2 DEF add_sub, new
<1>4. /\ truth' \in Seq([who : People, number : Phones, behind : Nat])
      /\ Len(truth') = Len(truth) + 1
      /\ \A k \in 1..Len(truth) : truth'[k] = truth[k]
      /\ truth'[Len(truth) + 1] = told1
  BY <1>2 DEF add_sub, told1
<1>5. amt' = amt + 1 /\ strayed' = strayed
  BY <1>3 DEF amt, add_sub
<1>6. ASSUME ~strayed PROVE BookRight'
  <2>1. Len(truth) = amt
    BY <1>6 DEF BookRight
  <2>2. ASSUME NEW k \in 1..(amt + 1)
        PROVE  /\ subs'[k].id = k - 1
               /\ subs'[k].who = truth'[k].who
               /\ truth'[k].behind = 0 => subs'[k].number = truth'[k].number
    <3>1. CASE k = amt + 1
      BY <1>1, <1>2, <1>3, <1>4, <2>1, <3>1 DEF amt
    <3>2. CASE k # amt + 1
      <4>1. k \in 1..amt
        BY <1>1, <3>2
      <4> QED
        BY <1>3, <1>4, <1>6, <2>1, <4>1 DEF BookRight, amt
    <3> QED
      BY <3>1, <3>2
  <2> QED
    BY <1>4, <1>5, <2>1, <2>2 DEF BookRight
<1> QED
  BY <1>3, <1>4, <1>5, <1>6 DEF BookRight

\* The loop of remove_sub(): the names skip record r, and the numbers of the records
\* behind it go along with them.
LEMMA RemoveKeepsBook ==
  ASSUME BookInv, NEW r \in Ids, remove_sub(r)
  PROVE  BookInv'
<1> USE DEF BookInv, BookTypes
<1> DEFINE Record == [id : Nat, who : People, number : Phones]
           Belief == [who : People, number : Phones, behind : Nat]
<1>1. amt \in Nat /\ r \in Int
  BY PhonebookAssumption DEF amt
<1>2. CASE r > amt - 1
  BY <1>2 DEF remove_sub, BookRight, amt
<1>3. CASE ~(r > amt - 1)
  <2>1. /\ subs' = Without(r) /\ amt > 0 /\ strayed' = (strayed \/ r < 0)
        /\ truth' = IF strayed' THEN truth ELSE Expected(r)
    BY <1>3 DEF remove_sub
  <2>2. \A k \in 1..amt : subs[k] \in Record
    BY ElementOfSeq DEF amt
  <2>3. \A k \in 1..(amt - 1) :
          /\ subs'[k].id = k - 1
          /\ subs'[k].who = IF k - 1 >= r THEN subs[k + 1].who ELSE subs[k].who
          /\ subs'[k].number = subs[k + 1].number
          /\ subs'[k] \in Record
    <3> TAKE k \in 1..(amt - 1)
    <3>1. k \in 1..amt /\ k + 1 \in 1..amt /\ k - 1 \in Nat
      BY <1>1
    <3>2. subs'[k] = [id |-> k - 1,
                      who |-> IF k - 1 >= r THEN subs[k + 1].who ELSE subs[k].who,
                      number |-> subs[k + 1].number]
      BY <2>1 DEF Without
    <3>3. subs[k].who \in People /\ subs[k + 1].who \in People
          /\ subs[k + 1].number \in Phones
      BY <3>1, <2>2
    <3> QED
      BY <3>1, <3>2, <3>3
  <2>4. subs' \in Seq(Record) /\ amt' = amt - 1
    <3>1. subs' \in [1..(amt - 1) -> Record]
      BY <2>1, <2>3 DEF Without
    <3>2. amt - 1 \in Nat
      BY <2>1, <1>1
    <3>3. \A R : \A n \in Nat : \A f \in [1..n -> R] : f \in Seq(R) /\ Len(f) = n
      OBVIOUS
    <3> HIDE DEF Record
    <3>4. subs' \in Seq(Record) /\ Len(subs') = amt - 1
      BY <3>1, <3>2, <3>3
    <3> QED
      BY <3>4 DEF amt
  <2>5. CASE strayed'
    <3>1. truth' = truth /\ strayed' \in BOOLEAN
      BY <2>1, <2>5
    <3> QED
      BY <2>4, <2>5, <3>1 DEF BookRight
  <2>6. CASE ~strayed'
    <3>1. ~strayed /\ r \in 0..(amt - 1) /\ truth' = Expected(r)
      <4>1. ~strayed /\ ~(r < 0) /\ truth' = Expected(r)
        BY <2>1, <2>6, Zenon
      <4> QED
        BY <1>1, <1>3, <4>1
    <3>2. /\ Len(truth) = amt
          /\ \A k \in 1..amt :
               /\ subs[k].who = truth[k].who
               /\ truth[k].behind = 0 => subs[k].number = truth[k].number
      BY <3>1 DEF BookRight
    <3> DEFINE marked == [k \in DOMAIN truth |->
                            [truth[k] EXCEPT !.behind = IF k <= r THEN @ + 1 ELSE @]]
    <3>3. \A k \in 1..amt :
            /\ marked[k].who = truth[k].who /\ marked[k].number = truth[k].number
            /\ marked[k].behind = IF k <= r THEN truth[k].behind + 1 ELSE truth[k].behind
            /\ marked[k] \in Belief /\ truth[k].behind \in Nat
      <4> TAKE k \in 1..amt
      <4>1. k \in DOMAIN truth /\ truth[k] \in Belief
        <5> HIDE DEF Belief
        <5>1. truth \in Seq(Belief)
          BY DEF Belief
        <5> QED
          BY <1>1, <3>2, <5>1, ElementOfSeq
      <4>2. truth[k].behind \in Nat /\ (IF k <= r THEN truth[k].behind + 1 ELSE truth[k].behind) \in Nat
        BY <4>1
      <4> QED
        BY <4>1, <4>2
    <3>4. marked \in Seq(Belief) /\ Len(marked) = amt
      <4>1. DOMAIN marked = 1..amt
        BY <3>2
      <4>2. marked \in [1..amt -> Belief]
        BY <3>3, <4>1
      <4>3. \A R : \A n \in Nat : \A f \in [1..n -> R] : f \in Seq(R) /\ Len(f) = n
        OBVIOUS
      <4> HIDE DEF marked, Belief
      <4> QED
        BY <1>1, <4>2, <4>3
    <3>5. truth' = RemoveAt(marked, r + 1)
      BY <3>1 DEF Expected
    <3> HIDE DEF marked, Belief
    <3>6. /\ truth' \in Seq(Belief) /\ Len(truth') = amt - 1
          /\ \A k \in 1..(amt - 1) :
               truth'[k] = IF k < r + 1 THEN marked[k] ELSE marked[k + 1]
      <4>1. r + 1 \in 1..Len(marked)
        BY <1>1, <3>1, <3>4
      <4> QED
        BY <3>4, <3>5, <4>1, OneTakenOut
    <3>7. ASSUME NEW k \in 1..(amt - 1)
          PROVE  /\ subs'[k].who = truth'[k].who
                 /\ truth'[k].behind = 0 => subs'[k].number = truth'[k].number
      <4>1. k \in 1..amt /\ k + 1 \in 1..amt
        BY <1>1
      <4>2. CASE k < r + 1
        <5>1. truth'[k] = marked[k] /\ marked[k].behind # 0 /\ ~(k - 1 >= r)
          <6>1. truth[k].behind \in Nat /\ marked[k].behind = truth[k].behind + 1
            BY <1>1, <3>1, <3>3, <4>1, <4>2
          <6> QED
            BY <1>1, <3>1, <3>6, <4>1, <4>2, <6>1
        <5> QED
          BY <2>3, <3>2, <3>3, <4>1, <5>1
      <4>3. CASE ~(k < r + 1)
        <5>1. truth'[k] = marked[k + 1] /\ k - 1 >= r /\ ~(k + 1 <= r)
          BY <1>1, <3>1, <3>6, <4>1, <4>3
        <5>2. subs'[k].who = subs[k + 1].who /\ subs'[k].number = subs[k + 1].number
          BY <2>3, <5>1
        <5>3. /\ marked[k + 1].who = truth[k + 1].who
              /\ marked[k + 1].number = truth[k + 1].number
              /\ marked[k + 1].behind = truth[k + 1].behind
          BY <3>3, <4>1, <5>1
        <5> QED
          BY <3>2, <4>1, <5>1, <5>2, <5>3
      <4> QED
        BY <4>2, <4>3
    <3>8. BookRight'
      BY <2>3, <2>4, <3>6, <3>7 DEF BookRight
    <3> QED
      BY <2>1, <2>4, <2>6, <3>6, <3>8, Zenon DEF Belief
  <2> QED
    BY <2>5, <2>6
<1> QED
  BY <1>2, <1>3

\* After any commands without a negative record number the people of the phone
\* book are those entered and not deleted, in order, with their places as ids, and
\* whoever had nobody behind them deleted has the number entered with them
\* (struct_home.c:40-112).
THEOREM PhonebookIsRight == BookSpec => []BookRight
<1>1. BookInv /\ [BookNext]_bookVars => BookInv'
  <2> SUFFICES ASSUME BookInv, [BookNext]_bookVars PROVE BookInv'
    OBVIOUS
  <2>1. CASE UNCHANGED <<subs, truth, strayed>>
    BY <2>1 DEF BookInv, BookTypes, BookRight, amt
  <2>2. CASE \E w \in People, n \in Phones : add_sub(w, n)
    BY <2>2, AddKeepsBook
  <2>3. CASE \E r \in Ids : remove_sub(r)
    BY <2>3, RemoveKeepsBook
  <2> QED
    BY <2>1, <2>2, <2>3 DEF BookNext, bookVars, NothingThere, quit
<1>2. BookInv => BookRight
  BY DEF BookInv
<1> QED
  BY <1>1, <1>2, BookInitInv, PTL DEF BookSpec
----------------------------------------------------------------------------
(* The editors *)

\* As long as the editor runs its keyboard is open and fd is the terminal only
\* before anything was typed; a file that fd leads to is the one opened last.
EditTypes ==
  /\ fd \in Int
  /\ text_buf \in Seq(Chars)
  /\ desc \in [Numbers -> Names \cup {"tty", "free"}]
  /\ files \in [Names -> Seq(Chars)]

Keyboard == desc[0] = "tty" /\ (fd = 0 => text_buf = <<>>)

LeadsToCurrent == IsFile(fd) => desc[fd] = current

EditInv == EditTypes /\ (editor = "runs" => Keyboard /\ LeadsToCurrent)

\* A set of descriptors that is not empty has a lowest one.
LEMMA LowestNumber ==
  ASSUME NEW S \in SUBSET Numbers, S # {}
  PROVE  Min(S) \in S
<1>1. S \in SUBSET Nat
  BY EditorsAssumption DEF Numbers
<1>2. PICK x \in S : \A y \in S : ~(<<y, x>> \in OpToRel(<, Nat))
  BY <1>1, NatLessThanWellFounded, WFMin
<1>3. ASSUME NEW y \in S PROVE x <= y
  <2>1. x \in Nat /\ y \in Nat /\ <<y, x>> \in Nat \X Nat
    BY <1>1
  <2>2. ~(y < x)
    BY <1>2, <2>1 DEF OpToRel
  <2> QED
    BY <2>1, <2>2
<1> QED
  BY <1>3 DEF Min

\* lseek() to 0 and write(): the text, and behind it what the file had there.
LEMMA WriteAtStart ==
  ASSUME NEW old \in Seq(Chars), NEW text \in Seq(Chars)
  PROVE  /\ Overlay(old, 0, text) = text \o SubSeq(old, Len(text) + 1, Len(old))
         /\ Overlay(old, 0, text) \in Seq(Chars)
<1> DEFINE rest == SubSeq(old, Len(text) + 1, Len(old))
<1>1. SubSeq(old, 1, 0) = <<>>
  BY SubSeqEmpty
<1>2. <<>> \o text = text
  BY ConcatEmptySeq
<1>3. 0 + Len(text) + 1 = Len(text) + 1
  OBVIOUS
<1>4. Overlay(old, 0, text) = text \o rest
  BY <1>1, <1>2, <1>3 DEF Overlay
<1>5. rest \in Seq(Chars)
  <2>1. \A j \in (Len(text) + 1)..Len(old) : old[j] \in Chars
    BY ElementOfSeq
  <2> QED
    BY <2>1
<1>6. text \o rest \in Seq(Chars)
  BY <1>5, ConcatProperties
<1> QED
  BY <1>4, <1>6

\* The editor starts with the terminal in fd and an empty buffer.
LEMMA EditInitInv == EditInit => EditInv
BY EditorsAssumption
DEF EditInit, EditInv, EditTypes, Keyboard, LeadsToCurrent, IsFile, Numbers

\* F1: the number that open() takes is not the keyboard's.
LEMMA OpenKeepsInv ==
  ASSUME EditInv, NEW name, open_file(name)
  PROVE  EditInv'
<1> DEFINE free == {n \in Numbers : desc[n] = "free"}
           new == Min(free)
<1>1. CASE name \in Names /\ free # {}
  <2>1. new \in free
    BY <1>1, LowestNumber
  <2>2. /\ editor = "runs" /\ editor' = editor /\ fd' = new
        /\ desc' = [desc EXCEPT ![new] = name] /\ current' = name
        /\ text_buf' = text_buf /\ files' = files
    BY <1>1 DEF open_file
  <2> HIDE DEF new
  <2>3. new \in Numbers /\ desc[new] = "free" /\ new \in Int
    BY <2>1, EditorsAssumption DEF Numbers
  <2>4. EditTypes'
    BY <1>1, <2>2, <2>3 DEF EditInv, EditTypes, Numbers
  <2>5. new # 0
    BY <2>2, <2>3 DEF EditInv, Keyboard
  <2>6. Keyboard' /\ LeadsToCurrent'
    BY <2>2, <2>3, <2>5 DEF EditInv, EditTypes, Keyboard, LeadsToCurrent, IsFile, Numbers
  <2> QED
    BY <2>4, <2>6 DEF EditInv
<1>2. CASE ~(name \in Names /\ free # {})
  <2>1. /\ editor = "runs" /\ editor' = editor /\ fd' = -1 /\ desc' = desc
        /\ text_buf' = text_buf /\ files' = files
    BY <1>2 DEF open_file
  <2> QED
    BY <2>1 DEF EditInv, EditTypes, Keyboard, LeadsToCurrent, IsFile, Numbers
<1> QED
  BY <1>1, <1>2

\* F2: a text is only taken for a number above 0.
LEMMA WriteKeepsInv ==
  ASSUME EditInv, NEW text \in Texts, write_func(text)
  PROVE  EditInv'
BY EditorsAssumption
DEF write_func, EditInv, EditTypes, Keyboard, LeadsToCurrent, IsFile, Numbers

\* F3: what a save writes, and where.
LEMMA SaveLands ==
  ASSUME EditInv, save_func
  PROVE  /\ EditInv'
         /\ \A f \in Names : files'[f] # files[f] =>
              /\ f = current
              /\ files'[f] = text_buf \o SubSeq(files[f], Len(text_buf) + 1, Len(files[f]))
         /\ editor' = "deaf" => text_buf = <<>>
<1> USE DEF EditInv
<1>1. /\ editor = "runs" /\ fd' = fd /\ text_buf' = text_buf
      /\ desc' = [n \in Numbers |-> IF n = fd THEN "free" ELSE desc[n]]
      /\ editor' = IF fd = 0 THEN "deaf" ELSE "runs"
  BY DEF save_func
<1>2. EditTypes /\ Keyboard /\ LeadsToCurrent
  BY <1>1
<1>3. /\ files' \in [Names -> Seq(Chars)]
      /\ \A f \in Names : files'[f] # files[f] =>
           /\ f = current
           /\ files'[f] = text_buf \o SubSeq(files[f], Len(text_buf) + 1, Len(files[f]))
  <2>1. CASE IsFile(fd)
    <3>1. desc[fd] = current /\ current \in Names
      BY <1>2, <2>1 DEF LeadsToCurrent, IsFile
    <3>2. files' = [files EXCEPT ![current] = Overlay(@, 0, text_buf)]
      BY <2>1, <3>1 DEF save_func
    <3>3. /\ Overlay(files[current], 0, text_buf) \in Seq(Chars)
          /\ Overlay(files[current], 0, text_buf)
               = text_buf \o SubSeq(files[current], Len(text_buf) + 1, Len(files[current]))
      BY <1>2, <3>1, WriteAtStart DEF EditTypes
    <3>4. files' \in [Names -> Seq(Chars)]
      BY <1>2, <3>2, <3>3 DEF EditTypes
    <3>5. \A f \in Names : files'[f] # files[f] =>
            /\ f = current
            /\ files'[f] = text_buf \o SubSeq(files[f], Len(text_buf) + 1, Len(files[f]))
      BY <1>2, <3>1, <3>2, <3>3 DEF EditTypes
    <3> QED
      BY <3>4, <3>5
  <2>2. CASE ~IsFile(fd)
    BY <1>2, <2>2 DEF save_func, EditTypes
  <2> QED
    BY <2>1, <2>2
<1>4. EditTypes'
  BY <1>1, <1>2, <1>3 DEF EditTypes
<1>5. editor' = "runs" => Keyboard' /\ LeadsToCurrent'
  <2> SUFFICES ASSUME fd # 0 PROVE Keyboard' /\ LeadsToCurrent'
    BY <1>1
  <2>1. 0 \in Numbers
    BY EditorsAssumption DEF Numbers
  <2>2. Keyboard'
    BY <1>1, <1>2, <2>1 DEF Keyboard
  <2>3. ~IsFile(fd)'
    BY <1>1, EditorsAssumption DEF IsFile
  <2> QED
    BY <2>2, <2>3 DEF LeadsToCurrent
<1>6. editor' = "deaf" => text_buf = <<>>
  BY <1>1, <1>2 DEF Keyboard
<1> QED
  BY <1>3, <1>4, <1>5, <1>6

\* One step: the invariant is kept, and a file changes only by a save.
LEMMA EditStep ==
  ASSUME EditInv, EditNext
  PROVE  /\ EditInv'
         /\ \A f \in Names : files'[f] # files[f] =>
              /\ f = current
              /\ files'[f] = text_buf \o SubSeq(files[f], Len(text_buf) + 1, Len(files[f]))
         /\ editor' = "deaf" => text_buf = <<>>
<1>1. CASE \E name \in Names \cup {"missing"} : open_file(name)
  BY <1>1, OpenKeepsInv DEF open_file
<1>2. CASE \E text \in Texts : write_func(text)
  <2>1. UNCHANGED files /\ editor' # "deaf"
    BY <1>2 DEF write_func
  <2> QED
    BY <1>2, <2>1, WriteKeepsInv
<1>3. CASE save_func
  BY <1>3, SaveLands
<1>4. CASE quit_editor
  <2>1. EditTypes'
    BY <1>4 DEF quit_editor, EditInv, EditTypes
  <2> QED
    BY <1>4, <2>1 DEF quit_editor, EditInv
<1> QED
  BY <1>1, <1>2, <1>3, <1>4 DEF EditNext

\* Whatever files are opened, typed for and saved in whatever order, a save goes
\* to the file opened last and not saved since, over its beginning, and closes
\* the keyboard only when there is nothing to save (file.c:8-10).
THEOREM EditorsSaveRight == EditSpec => SavesLandRight
<1>1. EditInv /\ [EditNext]_editVars => EditInv'
  <2>1. CASE UNCHANGED editVars
    BY <2>1 DEF editVars, EditInv, EditTypes, Keyboard, LeadsToCurrent, IsFile
  <2> QED
    BY <2>1, EditStep
<1>2. EditInv /\ [EditNext]_editVars =>
        [/\ \A f \in Names : files'[f] # files[f] =>
              /\ f = current
              /\ files'[f] = text_buf \o SubSeq(files[f], Len(text_buf) + 1, Len(files[f]))
         /\ editor' = "deaf" => text_buf = <<>>]_editVars
  BY EditStep
<1> QED
  BY <1>1, <1>2, EditInitInv, PTL DEF EditSpec, SavesLandRight
----------------------------------------------------------------------------
(* traceroute *)

ShownLines == [shows : STRING \cup {"*"}, last : {TRUE, FALSE}]
Packets == [type : Nat, from : STRING]

\* The answer to p's probe with time to live n.
AnswerTo(p, n) == [for |-> p, nr |-> n, packet |-> Reply(p, n)]

\* A process reads one packet for each probe: it is at most one line behind.
TraceTypes ==
  /\ time_to_live \in [Traces -> Nat]
  /\ lines \in [Traces -> Seq(ShownLines)]
  /\ inbox \in [Traces -> Seq(Packets)]
  /\ flight \subseteq {AnswerTo(p, n) : p \in Traces, n \in Nat \ {0}}
  /\ foreign \in Nat
  /\ \A p \in Traces : /\ Len(lines[p]) <= time_to_live[p]
                       /\ time_to_live[p] <= Len(lines[p]) + 1

\* An address of p's route that only p's probes can bring back is not further
\* away than n.
Near(p, a, n) ==
  \A d \in 1..Len(Route[p]) : a = Route[p][d] /\ OnlyBy(p, Route[p][d]) => d <= n

\* No probe is answered before it is sent: what is under way, at a socket or
\* printed comes from a place no further away than the probes have got.
NothingTooNear ==
  /\ \A m \in flight : m.nr <= time_to_live[m.for]
  /\ \A p \in Traces :
       /\ inbox[p] # <<>> => Near(p, Head(inbox[p]).from, time_to_live[p])
       /\ \A i \in 1..Len(lines[p]) : Near(p, lines[p][i].shows, i)

\* Undisturbed, a process has one probe at most that is not answered, its last
\* one, and stops at the length of the route.
LinesRight(p) ==
  \A i \in 1..Len(lines[p]) :
    lines[p][i] = [shows |-> Route[p][i], last |-> i = Len(Route[p])]

InStep(p) ==
  /\ time_to_live[p] <= Len(Route[p])
  /\ inbox[p] # <<>> => inbox[p] = <<Reply(p, time_to_live[p])>>
  /\ flight \subseteq {AnswerTo(p, time_to_live[p])}
  /\ flight # {} => Waiting(p) /\ inbox[p] = <<>>
  /\ LinesRight(p)

TraceInv ==
  /\ TraceTypes
  /\ NothingTooNear
  /\ \A p \in Traces : Undisturbed(p) => InStep(p)
----------------------------------------------------------------------------
\* The invariant contains what the run checks.
LEMMA TraceInvRight == TraceInv => RouteRight
<1> SUFFICES ASSUME TraceInv, NEW p \in Traces
             PROVE  /\ Undisturbed(p) =>
                         lines[p] = [i \in 1..Len(lines[p]) |->
                            [shows |-> Route[p][i], last |-> i = Len(Route[p])]]
                    /\ \A i \in 1..Len(lines[p]), d \in 1..Len(Route[p]) :
                         lines[p][i].shows = Route[p][d] /\ OnlyBy(p, Route[p][d]) => d <= i
  BY DEF RouteRight
<1>1. lines[p] = [i \in 1..Len(lines[p]) |-> lines[p][i]]
  BY DEF TraceInv, TraceTypes
<1>2. Undisturbed(p) => LinesRight(p)
  BY DEF TraceInv, InStep
<1> QED
  BY <1>1, <1>2 DEF TraceInv, NothingTooNear, Near, LinesRight

\* At the start nothing is under way.
LEMMA TraceInitInv == TraceInit => TraceInv
<1> SUFFICES ASSUME TraceInit PROVE TraceInv
  OBVIOUS
<1>1. \A p \in Traces : Len(lines[p]) = 0 /\ Route[p] \in Seq(STRING)
  BY TracerouteAssumption DEF TraceInit
<1>2. TraceTypes
  BY DEF TraceInit, TraceTypes
<1>3. NothingTooNear
  BY <1>1 DEF TraceInit, NothingTooNear
<1>4. ASSUME NEW p \in Traces PROVE InStep(p)
  <2>1. time_to_live[p] = 0 /\ Len(Route[p]) \in Nat /\ inbox[p] = <<>> /\ flight = {}
    BY <1>1 DEF TraceInit
  <2>2. LinesRight(p)
    BY <1>1 DEF LinesRight
  <2> QED
    BY <2>1, <2>2 DEF InStep
<1> QED
  BY <1>2, <1>3, <1>4 DEF TraceInv

\* What comes back for a probe is a packet from the place on the route where
\* its time to live ends, or from the target.
LEMMA ReplyFrom ==
  ASSUME NEW p \in Traces, NEW n \in Nat \ {0}
  PROVE  /\ Reply(p, n) \in Packets
         /\ Len(Route[p]) \in Nat \ {0}
         /\ n < Len(Route[p]) => Reply(p, n) = [type |-> 11, from |-> Route[p][n]]
         /\ n >= Len(Route[p]) =>
              Reply(p, n) = [type |-> 3, from |-> Route[p][Len(Route[p])]]
<1>1. Route[p] \in Seq(STRING) /\ Route[p] # <<>>
  BY TracerouteAssumption
<1>2. Len(Route[p]) \in Nat \ {0}
  BY <1>1
<1>3. \A i \in 1..Len(Route[p]) : Route[p][i] \in STRING
  BY <1>1, ElementOfSeq
<1> QED
  BY <1>2, <1>3 DEF Reply, Packets, Target

\* An answer to a probe that was sent comes from no place further away.
LEMMA ReplyIsNear ==
  ASSUME NEW p \in Traces, NEW q \in Traces, NEW n \in Nat \ {0},
         NEW k \in Nat, q = p => n <= k
  PROVE  Near(p, Reply(q, n).from, k)
<1> SUFFICES ASSUME NEW d \in 1..Len(Route[p]), Reply(q, n).from = Route[p][d],
                    OnlyBy(p, Route[p][d])
             PROVE  d <= k
  BY DEF Near
<1>1. PICK i \in 1..Len(Route[q]) :
        Reply(q, n).from = Route[q][i] /\ i <= n
  BY ReplyFrom, SMTT(60)
<1>2. q = p
  BY <1>1 DEF OnlyBy
<1>3. i = d
  BY <1>1, <1>2, TracerouteAssumption
<1>4. Len(Route[p]) \in Nat
  BY TracerouteAssumption
<1> QED
  BY <1>1, <1>2, <1>3, <1>4
----------------------------------------------------------------------------
\* The last line of a route says so.
LEMMA EndsThere ==
  ASSUME NEW r, NEW a, NEW k, NEW n, r = [shows |-> a, last |-> k = n], k = n
  PROVE  r.last
OBVIOUS

\* Whom a step disturbs stays disturbed.
LEMMA StaysDisturbed ==
  ASSUME TraceTypes, TraceTypes', NEW p \in Traces, foreign <= foreign',
         \A q \in Traces : time_to_live[q] <= time_to_live'[q], Undisturbed(p)'
  PROVE  Undisturbed(p)
BY SMTT(60) DEF Undisturbed, TraceTypes

\* The loop up to sendto(): undisturbed, all earlier probes are answered, and
\* none is sent behind the target.
LEMMA ProbeKeepsInv ==
  ASSUME TraceInv, NEW q \in Traces, Probe(q)
  PROVE  TraceInv'
<1> DEFINE ttl == time_to_live[q] + 1
<1>1. TraceTypes /\ NothingTooNear
  BY DEF TraceInv
<1>2. /\ time_to_live' = [time_to_live EXCEPT ![q] = ttl]
      /\ inbox' = [inbox EXCEPT ![q] = <<>>]
      /\ lines' = lines /\ foreign' = foreign
  BY DEF Probe
<1>3. ttl \in Nat \ {0} /\ time_to_live'[q] = ttl /\ Len(lines[q]) = time_to_live[q]
  BY <1>1, <1>2 DEF Probe, Waiting, TraceTypes
<1>4. flight' = flight \cup {AnswerTo(q, ttl)}
  BY <1>3 DEF Probe, AnswerTo
<1> HIDE DEF ttl
<1>5. \A p \in Traces : time_to_live[p] \in Nat /\ time_to_live'[p] \in Nat
                        /\ time_to_live[p] <= time_to_live'[p]
  <2>1. ttl = time_to_live[q] + 1
    BY DEF ttl
  <2> QED
    BY <2>1, <1>1, <1>2, <1>3 DEF TraceTypes
<1>6. TraceTypes'
  <2>1. ttl = time_to_live[q] + 1
    BY DEF ttl
  <2>2. inbox' \in [Traces -> Seq(Packets)]
    BY <1>1, <1>2 DEF TraceTypes
  <2>3. flight' \subseteq {AnswerTo(p, n) : p \in Traces, n \in Nat \ {0}}
    BY <1>1, <1>3, <1>4 DEF TraceTypes
  <2>4. \A p \in Traces : /\ Len(lines'[p]) <= time_to_live'[p]
                          /\ time_to_live'[p] <= Len(lines'[p]) + 1
    BY <1>1, <1>2, <1>3, <2>1 DEF TraceTypes
  <2> QED
    BY <1>1, <1>2, <1>3, <2>2, <2>3, <2>4 DEF TraceTypes
<1>7. NothingTooNear'
  <2>1. ASSUME NEW m \in flight' PROVE m.nr <= time_to_live'[m.for]
    <3>1. CASE m \in flight
      <4>1. m.for \in Traces /\ m.nr \in Nat
        BY <1>1, <3>1 DEF TraceTypes, AnswerTo
      <4> QED
        BY <1>1, <1>5, <3>1, <4>1 DEF NothingTooNear
    <3>2. CASE m = AnswerTo(q, ttl)
      BY <1>3, <3>2 DEF AnswerTo
    <3> QED
      BY <1>4, <3>1, <3>2
  <2>2. ASSUME NEW p \in Traces, inbox'[p] # <<>>
        PROVE  Near(p, Head(inbox'[p]).from, time_to_live'[p])
    <3>1. p # q /\ inbox'[p] = inbox[p] /\ time_to_live'[p] = time_to_live[p]
      BY <1>1, <1>2, <2>2 DEF TraceTypes
    <3> QED
      BY <1>1, <2>2, <3>1 DEF NothingTooNear
  <2>3. ASSUME NEW p \in Traces, NEW i \in 1..Len(lines'[p])
        PROVE  Near(p, lines'[p][i].shows, i)
    BY <1>1, <1>2 DEF NothingTooNear
  <2> QED
    BY <2>1, <2>2, <2>3 DEF NothingTooNear, Near, OnlyBy
<1>8. ASSUME NEW p \in Traces, Undisturbed(p)'
      PROVE  InStep(p)'
  <2>1. p = q
    BY <1>3, <1>8 DEF Undisturbed
  <2>2. InStep(p)
    BY <1>1, <1>2, <1>5, <1>6, <1>8, StaysDisturbed, SMTT(60) DEF TraceInv, TraceTypes
  <2>3. Len(lines[p]) = time_to_live[p] /\ ttl = time_to_live[p] + 1 /\ ttl = time_to_live'[p]
    BY <1>3, <2>1 DEF ttl
  <2>4. flight = {}
    BY <1>5, <2>2, <2>3 DEF InStep, Waiting
  <2>5. Len(Route[p]) \in Nat \ {0}
    BY ReplyFrom, 1 \in Nat \ {0}
  <2>6. Len(lines[p]) # Len(Route[p])
    <3> SUFFICES ASSUME Len(lines[p]) = Len(Route[p]) PROVE Ended(p)
      BY <2>1 DEF Probe
    <3>1. Len(lines[p]) \in 1..Len(lines[p])
      BY <2>5
    <3>2. lines[p][Len(lines[p])].last
      BY <2>2, <3>1, EndsThere DEF InStep, LinesRight
    <3>3. lines[p] # <<>>
      BY <2>5
    <3> QED
      BY <3>2, <3>3 DEF Ended
  <2>7. time_to_live'[p] <= Len(Route[p])
    BY <1>5, <2>2, <2>3, <2>5, <2>6 DEF InStep
  <2>8. inbox'[p] = <<>>
    BY <1>1, <1>2, <2>1 DEF TraceTypes
  <2>9. flight' \subseteq {AnswerTo(p, time_to_live'[p])}
    BY <1>4, <2>1, <2>3, <2>4
  <2>10. Waiting(p)'
    BY <1>2, <1>5, <2>3 DEF Waiting
  <2>11. LinesRight(p)'
    BY <1>2, <2>2 DEF InStep, LinesRight
  <2> QED
    BY <2>7, <2>8, <2>9, <2>10, <2>11 DEF InStep, AnswerTo, Reply, Target
<1> QED
  BY <1>6, <1>7, <1>8 DEF TraceInv

\* recvfrom() and its line: undisturbed, the packet is the answer to the probe.
LEMMA ReceiveKeepsInv ==
  ASSUME TraceInv, NEW q \in Traces, Receive(q)
  PROVE  TraceInv'
<1> DEFINE packet == Head(inbox[q])
           end == packet.type = 3 /\ Matches(packet.from, Target(q))
           shown == IF packet.type = 11 \/ end THEN packet.from ELSE "*"
           newLine == [shows |-> shown, last |-> end]
           n == Len(lines[q]) + 1
<1>1. TraceTypes /\ NothingTooNear
  BY DEF TraceInv
<1>2. /\ lines' = [lines EXCEPT ![q] = Append(@, newLine)]
      /\ inbox' = [inbox EXCEPT ![q] = <<>>]
      /\ UNCHANGED <<time_to_live, flight, foreign, lost>>
      /\ inbox[q] # <<>> /\ Waiting(q)
  BY DEF Receive
<1>3. packet \in Packets
  BY <1>1, <1>2 DEF TraceTypes
<1>4. newLine \in ShownLines
  <2> HIDE DEF packet
  <2>1. packet.from \in STRING
    BY <1>3 DEF Packets
  <2>2. shown \in STRING \cup {"*"}
    BY <2>1, Zenon
  <2>3. end \in {TRUE, FALSE}
    BY Zenon
  <2> HIDE DEF shown, end
  <2> QED
    BY <2>2, <2>3 DEF ShownLines
<1>5. n \in Nat /\ time_to_live[q] = n
  BY <1>1, <1>2 DEF TraceTypes, Waiting
<1>6. /\ shown = "*" \/ shown = packet.from
      /\ newLine.shows = shown
  OBVIOUS
<1> HIDE DEF newLine, shown, end, packet
<1>7. /\ lines'[q] \in Seq(ShownLines)
      /\ Len(lines'[q]) = n
      /\ lines'[q][n] = newLine
      /\ \A i \in 1..Len(lines[q]) : lines'[q][i] = lines[q][i]
      /\ \A p \in Traces \ {q} : lines'[p] = lines[p]
  <2>1. lines[q] \in Seq(ShownLines)
    BY <1>1 DEF TraceTypes
  <2>2. lines'[q] = Append(lines[q], newLine) /\ \A p \in Traces \ {q} : lines'[p] = lines[p]
    BY <1>1, <1>2 DEF TraceTypes
  <2> QED
    BY <2>1, <2>2, <1>4, AppendProperties
<1>8. TraceTypes'
  <2>1. inbox' \in [Traces -> Seq(Packets)]
    BY <1>1, <1>2 DEF TraceTypes
  <2>2. lines' \in [Traces -> Seq(ShownLines)]
    <3>1. lines \in [Traces -> Seq(ShownLines)]
      BY <1>1 DEF TraceTypes
    <3>2. Append(lines[q], newLine) \in Seq(ShownLines)
      BY <3>1, <1>4, AppendProperties
    <3> QED
      BY <3>1, <3>2, <1>2, Zenon
  <2>3. \A p \in Traces : /\ Len(lines'[p]) <= time_to_live'[p]
                          /\ time_to_live'[p] <= Len(lines'[p]) + 1
    BY <1>1, <1>2, <1>5, <1>7 DEF TraceTypes
  <2> QED
    BY <1>1, <1>2, <2>1, <2>2, <2>3 DEF TraceTypes
<1>9. NothingTooNear'
  <2>1. ASSUME NEW p \in Traces, inbox'[p] # <<>>
        PROVE  Near(p, Head(inbox'[p]).from, time_to_live'[p])
    <3>1. p # q /\ inbox'[p] = inbox[p]
      BY <1>1, <1>2, <2>1 DEF TraceTypes
    <3> QED
      BY <1>1, <1>2, <2>1, <3>1 DEF NothingTooNear
  <2>2. ASSUME NEW p \in Traces, NEW i \in 1..Len(lines'[p])
        PROVE  Near(p, lines'[p][i].shows, i)
    <3>1. CASE p # q \/ i # n
      <4>1. i \in 1..Len(lines[p]) /\ lines'[p][i] = lines[p][i]
        BY <1>5, <1>7, <3>1
      <4> QED
        BY <4>1, <1>1 DEF NothingTooNear
    <3>2. CASE p = q /\ i = n
      <4>1. lines'[p][i].shows = shown
        BY <3>2, <1>6, <1>7
      <4>2. CASE shown = packet.from
        <5>1. Near(q, packet.from, n)
          BY <1>1, <1>2, <1>5 DEF NothingTooNear, packet
        <5> QED
          BY <4>1, <4>2, <5>1, <3>2
      <4>3. CASE shown = "*"
        <5>1. \A d \in 1..Len(Route[p]) : Route[p][d] # "*"
          BY TracerouteAssumption
        <5> QED
          BY <4>1, <4>3, <5>1 DEF Near
      <4> QED
        BY <4>2, <4>3, <1>6
    <3> QED
      BY <3>1, <3>2
  <2>3. \A m \in flight' : m.nr <= time_to_live'[m.for]
    BY <1>1, <1>2 DEF NothingTooNear
  <2> QED
    BY <2>1, <2>2, <2>3 DEF NothingTooNear, Near, OnlyBy
<1>10. ASSUME NEW p \in Traces, Undisturbed(p)'
       PROVE  InStep(p)'
  <2>1. Undisturbed(p) /\ InStep(p)
    BY <1>2, <1>10 DEF Undisturbed, TraceInv
  <2>2. p = q
    <3>1. time_to_live[q] # 0
      BY <1>5
    <3> QED
      BY <3>1, <2>1 DEF Undisturbed
  <2>3. inbox[p] = <<Reply(p, n)>> /\ flight = {} /\ n <= Len(Route[p])
    BY <2>1, <2>2, <1>2, <1>5 DEF InStep
  <2>4. packet = Reply(p, n)
    BY <2>2, <2>3 DEF packet
  <2>5. n \in Nat \ {0} /\ Len(Route[p]) \in Nat \ {0}
    BY <1>5, ReplyFrom
  <2>6. newLine = [shows |-> Route[p][n], last |-> n = Len(Route[p])]
    <3>1. CASE n < Len(Route[p])
      <4>1. packet.type = 11 /\ packet.from = Route[p][n]
        BY <3>1, <2>4, <2>5, ReplyFrom
      <4>2. shown = Route[p][n] /\ ~end
        BY <4>1 DEF shown, end
      <4>3. end = FALSE /\ (n = Len(Route[p])) = FALSE
        BY <4>2, <3>1, <2>5 DEF end
      <4> QED
        BY <4>2, <4>3, Zenon DEF newLine
    <3>2. CASE n = Len(Route[p])
      <4>1. packet.type = 3 /\ packet.from = Route[p][n] /\ Target(q) = Route[p][n]
        BY <3>2, <2>2, <2>4, <2>5, ReplyFrom DEF Target
      <4>2. Matches(packet.from, Target(q))
        BY <4>1, <3>2, TracerouteAssumption DEF Matches
      <4>3. shown = Route[p][n] /\ end
        BY <4>1, <4>2 DEF shown, end
      <4>4. end = TRUE /\ (n = Len(Route[p])) = TRUE
        BY <4>3, <3>2 DEF end
      <4> QED
        BY <4>3, <4>4, Zenon DEF newLine
    <3> QED
      BY <3>1, <3>2, <2>3, <2>5
  <2>7. LinesRight(p)'
    <3> SUFFICES ASSUME NEW i \in 1..Len(lines'[p])
                 PROVE  lines'[p][i] = [shows |-> Route[p][i], last |-> i = Len(Route[p])]
      BY Zenon DEF LinesRight
    <3>1. CASE i = n
      BY <3>1, <2>2, <2>6, <1>7
    <3>2. CASE i # n
      <4>1. i \in 1..Len(lines[p]) /\ lines'[p][i] = lines[p][i]
        BY <3>2, <2>2, <1>5, <1>7
      <4> QED
        BY <4>1, <2>1 DEF InStep, LinesRight
    <3> QED
      BY <3>1, <3>2
  <2>8. inbox'[p] = <<>> /\ flight' = {} /\ time_to_live'[p] <= Len(Route[p])
    BY <1>1, <1>2, <1>5, <2>2, <2>3 DEF TraceTypes
  <2> QED
    BY <2>7, <2>8 DEF InStep
<1> QED
  BY <1>8, <1>9, <1>10 DEF TraceInv

\* A packet that reaches the host is copied to the sockets that wait; if it is
\* near for every process, what is at the sockets stays so.
LEMMA ArrivalKeeps ==
  ASSUME TraceInv, NEW packet \in Packets, Arrives(packet), flight' \subseteq flight,
         foreign' \in Nat, UNCHANGED <<time_to_live, lines>>,
         \A p \in Traces : Near(p, packet.from, time_to_live[p])
  PROVE  TraceTypes' /\ NothingTooNear'
<1>1. TraceTypes /\ NothingTooNear
  BY DEF TraceInv
<1>2. \A p \in Traces : inbox'[p] = IF Waiting(p) /\ inbox[p] = <<>> THEN <<packet>> ELSE inbox[p]
  BY DEF Arrives
<1>3. inbox' \in [Traces -> Seq(Packets)]
  <2>1. <<packet>> \in Seq(Packets)
    OBVIOUS
  <2> QED
    BY <2>1, <1>1 DEF Arrives, TraceTypes
<1>4. TraceTypes'
  BY <1>1, <1>3 DEF TraceTypes
<1>5. ASSUME NEW p \in Traces, inbox'[p] # <<>>
      PROVE  Near(p, Head(inbox'[p]).from, time_to_live'[p])
  <2>1. CASE inbox'[p] = inbox[p]
    BY <1>1, <1>5, <2>1 DEF NothingTooNear
  <2>2. CASE inbox'[p] = <<packet>>
    <3>1. Head(inbox'[p]) = packet
      BY <2>2
    <3> QED
      BY <3>1
  <2> QED
    BY <1>2, <2>1, <2>2
<1>6. \A m \in flight' : m.nr <= time_to_live'[m.for]
  BY <1>1 DEF NothingTooNear
<1>7. \A p \in Traces : \A i \in 1..Len(lines'[p]) : Near(p, lines'[p][i].shows, i)
  BY <1>1 DEF NothingTooNear
<1> QED
  BY <1>4, <1>5, <1>6, <1>7 DEF NothingTooNear, Near, OnlyBy

\* An answer arrives.
LEMMA DeliverKeepsInv ==
  ASSUME TraceInv, NEW m \in flight, Deliver(m)
  PROVE  TraceInv'
<1>1. /\ flight' = flight \ {m} /\ Arrives(m.packet)
      /\ UNCHANGED <<time_to_live, lines, foreign, lost>>
  BY DEF Deliver
<1>2. PICK q \in Traces, n \in Nat \ {0} : m = AnswerTo(q, n)
  BY DEF TraceInv, TraceTypes
<1>3. m.for = q /\ m.nr = n /\ m.packet = Reply(q, n)
  BY <1>2 DEF AnswerTo
<1>4. m.packet \in Packets
  BY <1>3, ReplyFrom
<1>5. ASSUME NEW p \in Traces PROVE Near(p, m.packet.from, time_to_live[p])
  <2>1. time_to_live[p] \in Nat
    BY DEF TraceInv, TraceTypes
  <2>2. n <= time_to_live[q]
    BY <1>3 DEF TraceInv, NothingTooNear
  <2> QED
    BY <1>3, <2>1, <2>2, ReplyIsNear
<1>6. foreign' \in Nat
  BY <1>1 DEF TraceInv, TraceTypes
<1>7. TraceTypes' /\ NothingTooNear'
  BY <1>1, <1>4, <1>5, <1>6, ArrivalKeeps
<1>8. ASSUME NEW p \in Traces, Undisturbed(p)'
      PROVE  InStep(p)'
  <2>1. Undisturbed(p) /\ InStep(p)
    BY <1>1, <1>8 DEF Undisturbed, TraceInv
  <2>2. m = AnswerTo(p, time_to_live[p]) /\ flight' = {} /\ Waiting(p) /\ inbox[p] = <<>>
    BY <1>1, <2>1 DEF InStep
  <2>3. inbox'[p] = <<Reply(p, time_to_live[p])>>
    BY <1>1, <2>2 DEF Arrives, AnswerTo
  <2>4. LinesRight(p)'
    BY <1>1, <2>1 DEF InStep, LinesRight
  <2>5. inbox'[p] = <<Reply(p, time_to_live[p])'>>
    BY <1>1, <2>3 DEF Reply, Target
  <2> QED
    BY <1>1, <2>1, <2>2, <2>4, <2>5 DEF InStep
<1> QED
  BY <1>7, <1>8 DEF TraceInv

\* An answer is lost: nothing is under way any more.
LEMMA LoseKeepsInv ==
  ASSUME TraceInv, NEW m \in flight, LoseAnswer(m)
  PROVE  TraceInv'
<1>1. flight' = flight \ {m} /\ UNCHANGED <<time_to_live, lines, inbox, foreign>>
  BY DEF LoseAnswer
<1>2. TraceTypes'
  BY <1>1 DEF TraceInv, TraceTypes
<1>3. NothingTooNear'
  BY <1>1 DEF TraceInv, NothingTooNear, Near, OnlyBy
<1>4. ASSUME NEW p \in Traces, Undisturbed(p)'
      PROVE  InStep(p)'
  <2>1. InStep(p)
    BY <1>1, <1>4 DEF Undisturbed, TraceInv
  <2>2. LinesRight(p)'
    BY <1>1, <2>1 DEF InStep, LinesRight
  <2>3. Reply(p, time_to_live[p])' = Reply(p, time_to_live[p])
        /\ AnswerTo(p, time_to_live[p])' = AnswerTo(p, time_to_live[p])
    BY <1>1 DEF Reply, Target, AnswerTo
  <2> QED
    BY <1>1, <2>1, <2>2, <2>3 DEF InStep, Waiting
<1> QED
  BY <1>2, <1>3, <1>4 DEF TraceInv

\* A packet that answers no probe: from now on everybody is disturbed.
LEMMA ForeignKeepsInv ==
  ASSUME TraceInv, NEW packet \in Foreign, ForeignArrives(packet)
  PROVE  TraceInv'
<1>1. /\ foreign' = foreign + 1 /\ Arrives(packet)
      /\ UNCHANGED <<time_to_live, lines, flight, lost>>
  BY DEF ForeignArrives
<1>2. packet \in Packets
  BY TracerouteAssumption DEF Packets
<1>3. foreign' \in Nat /\ foreign' # 0
  BY <1>1 DEF TraceInv, TraceTypes
<1>4. \A p \in Traces : Near(p, packet.from, time_to_live[p])
  BY DEF Near, OnlyBy
<1>5. TraceTypes' /\ NothingTooNear'
  BY <1>1, <1>2, <1>3, <1>4, ArrivalKeeps
<1>6. \A p \in Traces : ~Undisturbed(p)'
  BY <1>3 DEF Undisturbed
<1> QED
  BY <1>5, <1>6 DEF TraceInv

\* Without other traffic the lines are the route and the trace ends at its
\* target; whatever traffic there is, the line of an address that only its own
\* probes bring back is at least its distance (traceroute.c:92-113).
THEOREM TraceroutesAreRight == TraceSpec => []RouteRight
<1>1. TraceInv /\ [TraceNext]_traceVars => TraceInv'
  <2> SUFFICES ASSUME TraceInv, [TraceNext]_traceVars PROVE TraceInv'
    OBVIOUS
  <2>1. CASE UNCHANGED traceVars
    <3>1. TraceTypes'
      BY <2>1 DEF traceVars, TraceInv, TraceTypes
    <3>2. NothingTooNear'
      BY <2>1 DEF traceVars, TraceInv, NothingTooNear, Near, OnlyBy
    <3>3. \A p \in Traces : Undisturbed(p)' => InStep(p)'
      BY <2>1 DEF traceVars, TraceInv, Undisturbed, InStep, LinesRight, Waiting, Reply,
                  Target, AnswerTo
    <3> QED
      BY <3>1, <3>2, <3>3 DEF TraceInv
  <2>2. CASE \E p \in Traces : Probe(p) \/ Receive(p)
    BY <2>2, ProbeKeepsInv, ReceiveKeepsInv
  <2>3. CASE \E m \in flight : Deliver(m) \/ LoseAnswer(m)
    BY <2>3, DeliverKeepsInv, LoseKeepsInv
  <2>4. CASE \E packet \in Foreign : ForeignArrives(packet)
    BY <2>4, ForeignKeepsInv
  <2> QED
    BY <2>1, <2>2, <2>3, <2>4 DEF TraceNext
<1> QED
  BY <1>1, TraceInitInv, TraceInvRight, PTL DEF TraceSpec
----------------------------------------------------------------------------
(* The datagram servers *)

Bytes == (Everybody \cup {None}) \X Nat \X {"raw", "upper", "zero", "junk"}

DgramTypes ==
  /\ client \in [Everybody -> {"start", "connected", "sent", "closed"}]
  /\ typed \in [Everybody -> 0..Size]
  /\ reply \in [Everybody -> Seq(Bytes)]
  /\ requests \in Seq([from : Everybody, bytes : Seq(Bytes)])
  /\ buf \in Seq(Bytes)
  /\ answers \in [Everybody -> Seq(Seq(Bytes))]

\* c has sent its request: from now on its text stays.
Past(c) == client[c] \in {"sent", "closed"}

\* The request of c, and what the server makes of it.
Asked(c) == Datagram(c, typed[c])
Served(c) == [i \in 1..Len(Asked(c)) |-> toupper(Asked(c)[i])]

\* What is behind the bytes of an answer in the buffer of its reader.
Blank(c) == IF c \in RawClients THEN Zero ELSE Junk

\* The answer to d may come to c.
Reaches(d, c) == d = c \/ {c, d} \subseteq RawClients

\* The place of every datagram under way: who sent it and what it is made of.
RequestsKnown ==
  /\ caddr \in IF server = "send" THEN Everybody ELSE {None}
  /\ \A d \in Everybody :
       /\ \A i \in 1..Len(requests) :
            requests[i].from = d => Past(d) /\ requests[i].bytes = Asked(d)
       /\ caddr = d => Past(d) /\ buf = Served(d)

AnswersKnown ==
  \A c \in Everybody : \A i \in 1..Len(answers[c]) :
    \E d \in Everybody : Past(d) /\ Reaches(d, c) /\ answers[c][i] = Served(d)

RepliesKnown ==
  \A c \in Everybody :
    /\ ~Past(c) => typed[c] = 0
    /\ reply[c] # <<>> =>
         Past(c) /\ \E d \in Everybody :
           Past(d) /\ Reaches(d, c) /\ reply[c] = Filled(Served(d), Blank(c))

\* A raw client that was not crossed is the only raw one whose answer is due,
\* and all that has come for it is its own.
AloneAtPort ==
  \A c \in RawClients \ crossed :
    /\ client[c] = "sent" =>
         /\ Owed \cap RawClients \subseteq {c}
         /\ \A i \in 1..Len(answers[c]) : answers[c][i] = Served(c)
    /\ reply[c] # <<>> => reply[c] = Filled(Served(c), Blank(c))

DgramInv == DgramTypes /\ RequestsKnown /\ AnswersKnown /\ RepliesKnown /\ AloneAtPort
----------------------------------------------------------------------------
\* The three kinds of datagram.
LEMMA DatagramCases ==
  ASSUME NEW c, NEW n
  PROVE  LET text == [i \in 1..n |-> Raw(c, i)]
         IN  /\ family = "unix" => Datagram(c, n) = text
             /\ family # "unix" /\ c \in RawClients => Datagram(c, n) = Filled(text, Zero)
             /\ family # "unix" /\ c \notin RawClients => Datagram(c, n) = Filled(text, Junk)
BY DEF Datagram

\* The datagram of c: the text, and in an array of Size bytes what is behind it.
LEMMA DatagramBytes ==
  ASSUME NEW c \in Everybody, NEW n \in 0..Size
  PROVE  /\ Datagram(c, n) \in Seq(Bytes)
         /\ Len(Datagram(c, n)) \in n..Size
         /\ \A i \in 1..Len(Datagram(c, n)) :
              Datagram(c, n)[i] = IF i <= n THEN Raw(c, i) ELSE Blank(c)
<1> DEFINE text == [i \in 1..n |-> Raw(c, i)]
           whole == [i \in 1..Size |-> IF i <= n THEN Raw(c, i) ELSE Blank(c)]
<1>1. Size \in Nat /\ n \in Nat /\ n <= Size
  BY DatagramAssumption
<1>2. Datagram(c, n) = text \/ Datagram(c, n) = Filled(text, Blank(c))
  BY DatagramCases DEF Blank
<1>3. Len(text) = n
  BY <1>1
<1>4. Filled(text, Blank(c)) = whole
  BY <1>1, <1>3 DEF Filled
<1>5. (\A i \in Nat : Raw(c, i) \in Bytes) /\ Blank(c) \in Bytes
  BY DEF Raw, Blank, Zero, Junk, Promise!Raw, Promise!Zero, Promise!Junk, Bytes
<1>6. text \in [1..n -> Bytes] /\ whole \in [1..Size -> Bytes]
  BY <1>1, <1>5
<1>7. /\ text \in Seq(Bytes) /\ whole \in Seq(Bytes) /\ Len(whole) = Size
  BY <1>1, <1>6
<1>8. CASE Datagram(c, n) = text
  <2>1. \A i \in 1..n : text[i] = Raw(c, i) /\ i <= n
    BY <1>1
  <2> HIDE DEF text
  <2> QED
    BY <1>1, <1>3, <1>7, <1>8, <2>1
<1>9. CASE Datagram(c, n) = whole
  <2>1. \A i \in 1..Size : whole[i] = IF i <= n THEN Raw(c, i) ELSE Blank(c)
    OBVIOUS
  <2> HIDE DEF whole
  <2> QED
    BY <1>1, <1>7, <1>9, <2>1
<1> QED
  BY <1>2, <1>4, <1>8, <1>9

\* The answer to c: its text in upper case, and the rest as it was sent.
LEMMA ServedBytes ==
  ASSUME DgramTypes, NEW c \in Everybody
  PROVE  /\ Served(c) \in Seq(Bytes)
         /\ Filled(Served(c), Blank(c)) =
              [i \in 1..Size |-> IF i <= typed[c] THEN Promise!Upper(c, i) ELSE Blank(c)]
         /\ Len(Served(c)) \in 0..Size
<1> DEFINE n == typed[c]
           len == Len(Asked(c))
<1>1. n \in 0..Size /\ n \in Nat /\ Size \in Nat
  BY DatagramAssumption DEF DgramTypes
<1>2. /\ Asked(c) \in Seq(Bytes) /\ len \in n..Size
      /\ \A i \in 1..len : Asked(c)[i] = IF i <= n THEN Raw(c, i) ELSE Blank(c)
  BY <1>1, DatagramBytes DEF Asked
<1>3. \A i \in Nat : toupper(Raw(c, i)) = Promise!Upper(c, i)
  BY DEF toupper, Raw, Promise!Raw
<1>4. toupper(Blank(c)) = Blank(c)
  BY DEF toupper, Blank, Zero, Junk, Promise!Zero, Promise!Junk
<1>5. (\A i \in Nat : Promise!Upper(c, i) \in Bytes) /\ Blank(c) \in Bytes
  BY DEF Blank, Zero, Junk, Promise!Upper, Promise!Zero, Promise!Junk, Bytes
<1> HIDE DEF len, n
<1>6. \A i \in 1..len : Served(c)[i] = IF i <= n THEN Promise!Upper(c, i) ELSE Blank(c)
  <2> TAKE i \in 1..len
  <2>1. i \in Nat /\ Asked(c)[i] = IF i <= n THEN Raw(c, i) ELSE Blank(c)
    BY <1>2
  <2>2. Served(c)[i] = toupper(Asked(c)[i])
    BY DEF Served, len
  <2> QED
    BY <1>3, <1>4, <2>1, <2>2
<1>7. Served(c) \in [1..len -> Bytes]
  <2>1. \A i \in 1..len : Served(c)[i] \in Bytes
    BY <1>1, <1>2, <1>5, <1>6
  <2>2. Served(c) = [i \in 1..len |-> Served(c)[i]]
    BY DEF Served, len
  <2> QED
    BY <2>1, <2>2
<1>8. Served(c) \in Seq(Bytes) /\ Len(Served(c)) = len
  <2>1. len \in Nat
    BY <1>1, <1>2
  <2>2. DOMAIN Served(c) = 1..len
    BY <1>7
  <2> QED
    BY <1>7, <2>1, <2>2
<1>9. \A i \in 1..Size :
        (IF i <= Len(Served(c)) THEN Served(c)[i] ELSE Blank(c))
          = IF i <= n THEN Promise!Upper(c, i) ELSE Blank(c)
  BY <1>1, <1>2, <1>6, <1>8
<1>10. Filled(Served(c), Blank(c)) =
         [i \in 1..Size |-> IF i <= n THEN Promise!Upper(c, i) ELSE Blank(c)]
  BY <1>9 DEF Filled
<1> QED
  BY <1>1, <1>2, <1>8, <1>10 DEF n

\* The request of a client is made of its text alone.
LEMMA AskedIs ==
  ASSUME family' = family, NEW d, NEW n, typed'[d] = n
  PROVE  Asked(d)' = Datagram(d, n)
<1>1. CASE family = "unix"
  BY <1>1 DEF Asked, Datagram, Raw, Promise!Raw
<1>2. CASE family # "unix" /\ d \in RawClients
  BY <1>2 DEF Asked, Datagram, Raw, Promise!Raw, Filled, Zero, Promise!Zero
<1>3. CASE family # "unix" /\ d \notin RawClients
  BY <1>3 DEF Asked, Datagram, Raw, Promise!Raw, Filled, Junk, Promise!Junk
<1> QED
  BY <1>1, <1>2, <1>3

\* The text of a client that has sent its request stays, and so does all that
\* is made of it.
LEMMA PastStays ==
  ASSUME family' = family, NEW d, Past(d), client'[d] \in {client[d], "closed"},
         typed'[d] = typed[d]
  PROVE  Past(d)' /\ Asked(d)' = Asked(d) /\ Served(d)' = Served(d)
<1>1. Asked(d)' = Asked(d)
  BY AskedIs DEF Asked
<1>2. Served(d)' = Served(d)
  BY <1>1, Zenon DEF Served, toupper, Promise!Upper
<1> QED
  BY <1>1, <1>2 DEF Past

\* What a step leaves alone of a client that has sent its request.
Framed ==
  \A d \in Everybody :
    Past(d) => Past(d)' /\ Asked(d)' = Asked(d) /\ Served(d)' = Served(d)

\* Every answer under way was under way before.
NoNewAnswers ==
  \A c \in Everybody : \A i \in 1..Len(answers'[c]) :
    \E j \in 1..Len(answers[c]) : answers'[c][i] = answers[c][j]

\* No step changes the text of a client that has sent it.
LEMMA TextsStay ==
  ASSUME DgramTypes, DgramNext
  PROVE  Framed
<1> SUFFICES ASSUME NEW d \in Everybody, Past(d)
             PROVE  /\ family' = family
                    /\ client'[d] \in {client[d], "closed"}
                    /\ typed'[d] = typed[d]
  BY PastStays DEF Framed
<1> USE DEF DgramTypes, Past
<1>1. CASE ServerBinds \/ ServerReceives \/ ServerSends
  BY <1>1 DEF ServerBinds, ServerReceives, ServerSends
<1>2. ASSUME NEW c \in Everybody, Opens(c) \/ Gets(c) \/ Prints(c)
      PROVE  /\ family' = family
             /\ client'[d] \in {client[d], "closed"}
             /\ typed'[d] = typed[d]
  BY <1>2 DEF Opens, Gets, Prints
<1>3. ASSUME NEW c \in Everybody, NEW n \in TextLengths, Sends(c, n)
      PROVE  /\ family' = family
             /\ client'[d] \in {client[d], "closed"}
             /\ typed'[d] = typed[d]
  <2>1. /\ family' = family /\ client[c] = "connected"
        /\ client' = [client EXCEPT ![c] = "sent"] /\ typed' = [typed EXCEPT ![c] = n]
    BY <1>3 DEF Sends
  <2> QED
    BY <2>1
<1> QED
  BY <1>1, <1>2, <1>3 DEF DgramNext, ServerNext, ClientNext

\* A request under way is somebody's.
LEMMA RequestFrom ==
  ASSUME DgramTypes, NEW i \in 1..Len(requests)
  PROVE  requests[i].from \in Everybody /\ requests[i].bytes \in Seq(Bytes)
<1> DEFINE Requests == [from : Everybody, bytes : Seq(Bytes)]
<1>1. requests \in Seq(Requests)
  BY DEF DgramTypes
<1> HIDE DEF Requests
<1>2. requests[i] \in Requests
  BY <1>1, ElementOfSeq
<1> QED
  BY <1>2 DEF Requests

\* A step that leaves the server alone.
LEMMA RequestsFrame ==
  ASSUME DgramInv, Framed, UNCHANGED <<requests, server, buf, caddr>>
  PROVE  RequestsKnown'
BY DEF DgramInv, RequestsKnown, Framed

\* A step that sends no answer.
LEMMA AnswersFrame ==
  ASSUME DgramInv, Framed, NoNewAnswers
  PROVE  AnswersKnown'
<1> SUFFICES ASSUME NEW c \in Everybody, NEW i \in 1..Len(answers'[c])
             PROVE  \E d \in Everybody : Past(d)' /\ Reaches(d, c) /\ answers'[c][i] = Served(d)'
  BY Zenon DEF AnswersKnown, Reaches
<1>1. PICK j \in 1..Len(answers[c]) : answers'[c][i] = answers[c][j]
  BY DEF NoNewAnswers
<1>2. PICK d \in Everybody : Past(d) /\ Reaches(d, c) /\ answers[c][j] = Served(d)
  BY DEF DgramInv, AnswersKnown
<1> QED
  BY <1>1, <1>2 DEF Framed

\* A step in which nobody receives.
LEMMA RepliesFrame ==
  ASSUME DgramInv, Framed, reply' = reply,
         \A c \in Everybody : Past(c)' \/ typed'[c] = typed[c]
  PROVE  RepliesKnown'
<1> SUFFICES ASSUME NEW c \in Everybody
             PROVE  /\ ~Past(c)' => typed'[c] = 0
                    /\ reply'[c] # <<>> =>
                         Past(c)' /\ \E d \in Everybody :
                           Past(d)' /\ Reaches(d, c) /\ reply'[c] = Filled(Served(d)', Blank(c))
  BY Zenon DEF RepliesKnown, Reaches, Filled, Blank, Zero, Junk, Promise!Zero, Promise!Junk
<1> QED
  BY DEF DgramInv, RepliesKnown, Framed

\* A step that makes no answer due and in which nobody receives or sends.
LEMMA AloneFrame ==
  ASSUME DgramInv, Framed, NoNewAnswers, reply' = reply, crossed' = crossed,
         Owed' \cap RawClients \subseteq Owed,
         \A c \in Everybody : client'[c] = "sent" => client[c] = "sent"
  PROVE  AloneAtPort'
<1> SUFFICES ASSUME NEW c \in RawClients \ crossed
             PROVE  /\ client'[c] = "sent" =>
                         /\ Owed' \cap RawClients \subseteq {c}
                         /\ \A i \in 1..Len(answers'[c]) : answers'[c][i] = Served(c)'
                    /\ reply'[c] # <<>> => reply'[c] = Filled(Served(c)', Blank(c))
  BY Zenon DEF AloneAtPort, Filled, Blank, Zero, Junk, Promise!Zero, Promise!Junk
<1>1. c \in Everybody
  BY DEF Everybody
<1>2. ASSUME client'[c] = "sent"
      PROVE  /\ Owed' \cap RawClients \subseteq {c}
             /\ \A i \in 1..Len(answers'[c]) : answers'[c][i] = Served(c)'
  <2>1. client[c] = "sent" /\ Past(c)
    BY <1>1, <1>2 DEF Past
  <2>2. Served(c)' = Served(c)
    BY <1>1, <2>1 DEF Framed
  <2>3. Owed \cap RawClients \subseteq {c}
        /\ \A j \in 1..Len(answers[c]) : answers[c][j] = Served(c)
    BY <2>1 DEF DgramInv, AloneAtPort
  <2> QED
    BY <1>1, <2>2, <2>3 DEF NoNewAnswers
<1>3. ASSUME reply'[c] # <<>>
      PROVE  reply'[c] = Filled(Served(c)', Blank(c))
  BY <1>1, <1>3 DEF DgramInv, RepliesKnown, AloneAtPort, Framed
<1> QED
  BY <1>2, <1>3
----------------------------------------------------------------------------
\* At the start nothing is under way.
LEMMA DgramInitInv == DgramInit => DgramInv
<1> SUFFICES ASSUME DgramInit PROVE DgramInv
  OBVIOUS
<1>1. DgramTypes
  BY DatagramAssumption DEF DgramInit, DgramTypes
<1>2. Len(requests) = 0 /\ \A c \in Everybody : Len(answers[c]) = 0
  BY DEF DgramInit
<1>3. RequestsKnown
  BY <1>2, DatagramAssumption DEF DgramInit, RequestsKnown, Everybody
<1>4. AnswersKnown
  BY <1>2 DEF AnswersKnown
<1>5. RepliesKnown
  BY DEF DgramInit, RepliesKnown
<1>6. AloneAtPort
  BY DEF DgramInit, AloneAtPort, Everybody
<1> QED
  BY <1>1, <1>3, <1>4, <1>5, <1>6 DEF DgramInv

\* A step of starting or ending: bind(), a client's socket(), and its end.
LEMMA StartAndEndKeepInv ==
  ASSUME DgramInv, Framed, ServerBinds \/ \E c \in Everybody : Opens(c) \/ Prints(c)
  PROVE  DgramInv'
<1>1. DgramTypes /\ RequestsKnown
  BY DEF DgramInv
<1>2. /\ UNCHANGED <<typed, reply, requests, buf, caddr, crossed>>
      /\ \A c \in Everybody : client'[c] = "sent" => client[c] = "sent"
      /\ \A c \in Everybody : answers'[c] \in {answers[c], <<>>}
      /\ client' \in [Everybody -> {"start", "connected", "sent", "closed"}]
      /\ answers' \in [Everybody -> Seq(Seq(Bytes))]
  <2>1. CASE ServerBinds
    BY <1>1, <2>1 DEF ServerBinds, DgramTypes
  <2>2. ASSUME NEW c \in Everybody, Opens(c)
        PROVE  <1>2!:
    BY <1>1, <2>2 DEF Opens, DgramTypes
  <2>3. ASSUME NEW c \in Everybody, Prints(c)
        PROVE  <1>2!:
    <3>1. <<>> \in Seq(Seq(Bytes))
      OBVIOUS
    <3> QED
      BY <1>1, <2>3, <3>1 DEF Prints, DgramTypes
  <2> QED
    BY <2>1, <2>2, <2>3
<1>3. server' = server \/ (server = "off" /\ server' = "recv")
  BY DEF ServerBinds, Opens, Prints
<1>4. DgramTypes'
  BY <1>1, <1>2 DEF DgramTypes
<1>5. RequestsKnown'
  BY <1>1, <1>2, <1>3 DEF RequestsKnown, Framed
<1>6. NoNewAnswers
  <2> SUFFICES ASSUME NEW c \in Everybody, NEW i \in 1..Len(answers'[c])
               PROVE  \E j \in 1..Len(answers[c]) : answers'[c][i] = answers[c][j]
    BY DEF NoNewAnswers
  <2>1. answers'[c] = answers[c]
    <3>1. Len(<<>>) = 0
      OBVIOUS
    <3> QED
      BY <1>2, <3>1
  <2> QED
    BY <2>1
<1>7. Owed' = Owed
  BY <1>2 DEF Owed
<1> QED
  BY <1>2, <1>4, <1>5, <1>6, <1>7, AnswersFrame, RepliesFrame, AloneFrame DEF DgramInv

\* recvfrom() of the server: buf is what it makes of the first request.
LEMMA ServerReceivesKeepsInv ==
  ASSUME DgramInv, Framed, ServerReceives
  PROVE  DgramInv'
<1> DEFINE m == Head(requests)
           Requests == [from : Everybody, bytes : Seq(Bytes)]
<1>1. DgramTypes /\ RequestsKnown
  BY DEF DgramInv
<1>2. /\ requests # <<>> /\ requests' = Tail(requests) /\ server' = "send"
      /\ caddr' = m.from /\ buf' = [i \in 1..Len(m.bytes) |-> toupper(m.bytes[i])]
      /\ UNCHANGED <<family, client, typed, reply, answers, crossed>>
  BY DEF ServerReceives
<1>3. requests \in Seq(Requests)
  BY <1>1 DEF DgramTypes
<1>4. /\ 1 \in 1..Len(requests) /\ m = requests[1]
      /\ requests' \in Seq(Requests) /\ Len(requests') = Len(requests) - 1
      /\ \A i \in 1..Len(requests') : i + 1 \in 1..Len(requests) /\ requests'[i] = requests[i + 1]
  <2> HIDE DEF Requests
  <2> QED
    BY <1>2, <1>3
<1> HIDE DEF m, Requests
<1>5. PICK d \in Everybody : m.from = d
  BY <1>1, <1>4, RequestFrom
<1>6. Past(d) /\ m.bytes = Asked(d) /\ buf' = Served(d)
  BY <1>1, <1>2, <1>4, <1>5 DEF RequestsKnown, Served
<1>7. DgramTypes'
  <2>1. buf' \in Seq(Bytes)
    BY <1>1, <1>6, ServedBytes
  <2> QED
    BY <1>1, <1>2, <1>4, <2>1 DEF DgramTypes, Requests
<1>8. RequestsKnown'
  <2>1. ASSUME NEW e \in Everybody, NEW i \in 1..Len(requests'), requests'[i].from = e
        PROVE  Past(e)' /\ requests'[i].bytes = Asked(e)'
    BY <1>1, <1>4, <2>1 DEF RequestsKnown, Framed
  <2>2. Past(d)' /\ buf' = Served(d)' /\ caddr' = d
    BY <1>2, <1>5, <1>6 DEF Framed
  <2> QED
    BY <1>2, <2>1, <2>2 DEF RequestsKnown
<1>9. NoNewAnswers
  BY <1>2 DEF NoNewAnswers
<1>10. Owed' \cap RawClients \subseteq Owed
  <2>1. \A i \in 1..Len(requests') : requests'[i].from \in Owed
    BY <1>4 DEF Owed
  <2>2. caddr' \in Owed
    BY <1>2, <1>4 DEF Owed
  <2> QED
    BY <2>1, <2>2 DEF Owed
<1> QED
  BY <1>2, <1>7, <1>8, <1>9, <1>10, AnswersFrame, RepliesFrame, AloneFrame DEF DgramInv

\* sendto() of the server: the answer reaches its client, or the raw ones.
LEMMA ServerSendsKeepsInv ==
  ASSUME DgramInv, Framed, ServerSends
  PROVE  DgramInv'
<1>1. DgramTypes /\ RequestsKnown /\ AnswersKnown
  BY DEF DgramInv
<1>0. PICK missed \in SUBSET RawClients : Answered(caddr, missed)
  BY DEF ServerSends
<1>2. /\ server = "send" /\ server' = "recv" /\ buf' = <<>> /\ caddr' = None
      /\ UNCHANGED <<family, client, typed, reply, requests, crossed>>
      /\ answers' = [c \in Everybody |->
                       IF Takes(c, caddr) /\ c \notin missed
                       THEN Append(answers[c], buf) ELSE answers[c]]
  BY <1>0 DEF ServerSends, Answered
<1>3. PICK d \in Everybody : caddr = d /\ Past(d) /\ buf = Served(d)
  BY <1>1, <1>2 DEF RequestsKnown
<1>4. \A c \in Everybody : answers[c] \in Seq(Seq(Bytes)) /\ buf \in Seq(Bytes)
  BY <1>1 DEF DgramTypes
<1>5. ASSUME NEW c \in Everybody
      PROVE  /\ answers'[c] \in Seq(Seq(Bytes))
             /\ \A i \in 1..Len(answers'[c]) :
                  \/ i \in 1..Len(answers[c]) /\ answers'[c][i] = answers[c][i]
                  \/ Takes(c, caddr) /\ answers'[c][i] = buf
  <2>1. CASE Takes(c, caddr) /\ c \notin missed
    <3>1. answers'[c] = Append(answers[c], buf)
      BY <1>2, <2>1
    <3>2. /\ Append(answers[c], buf) \in Seq(Seq(Bytes))
          /\ Len(Append(answers[c], buf)) = Len(answers[c]) + 1
          /\ \A i \in 1..Len(answers[c]) : Append(answers[c], buf)[i] = answers[c][i]
          /\ Append(answers[c], buf)[Len(answers[c]) + 1] = buf
      BY <1>4, AppendProperties
    <3>3. Len(answers[c]) \in Nat
      BY <1>4
    <3> QED
      BY <2>1, <3>1, <3>2, <3>3
  <2>2. CASE ~(Takes(c, caddr) /\ c \notin missed)
    BY <1>2, <1>4, <2>2
  <2> QED
    BY <2>1, <2>2
<1>6. DgramTypes'
  <2>1. answers' \in [Everybody -> Seq(Seq(Bytes))]
    BY <1>2, <1>5
  <2>2. <<>> \in Seq(Bytes)
    OBVIOUS
  <2> QED
    BY <1>1, <1>2, <2>1, <2>2 DEF DgramTypes
<1>7. RequestsKnown'
  BY <1>1, <1>2, DatagramAssumption DEF RequestsKnown, Framed, Everybody
<1>8. Past(d)' /\ Served(d)' = buf
  BY <1>3 DEF Framed
<1>9. AnswersKnown'
  <2> SUFFICES ASSUME NEW c \in Everybody, NEW i \in 1..Len(answers'[c])
               PROVE  \E e \in Everybody :
                        Past(e)' /\ Reaches(e, c) /\ answers'[c][i] = Served(e)'
    BY Zenon DEF AnswersKnown, Reaches
  <2>1. CASE i \in 1..Len(answers[c]) /\ answers'[c][i] = answers[c][i]
    <3>1. PICK e \in Everybody : Past(e) /\ Reaches(e, c) /\ answers[c][i] = Served(e)
      BY <1>1, <2>1 DEF AnswersKnown
    <3> QED
      BY <2>1, <3>1 DEF Framed
  <2>2. CASE Takes(c, caddr) /\ answers'[c][i] = buf
    <3>1. Reaches(d, c)
      BY <1>3, <2>2 DEF Takes, Reaches
    <3> QED
      BY <1>8, <2>2, <3>1
  <2> QED
    BY <1>5, <2>1, <2>2
<1>10. RepliesKnown'
  BY <1>2, RepliesFrame
<1>11. Owed' \cap RawClients \subseteq Owed
  BY <1>2, DatagramAssumption DEF Owed
<1>12. AloneAtPort'
  <2> SUFFICES ASSUME NEW c \in RawClients \ crossed
               PROVE  /\ client'[c] = "sent" =>
                           /\ Owed' \cap RawClients \subseteq {c}
                           /\ \A i \in 1..Len(answers'[c]) : answers'[c][i] = Served(c)'
                      /\ reply'[c] # <<>> => reply'[c] = Filled(Served(c)', Blank(c))
    BY <1>2, Zenon DEF AloneAtPort, Filled, Blank, Zero, Junk, Promise!Zero, Promise!Junk
  <2>1. c \in Everybody
    BY DEF Everybody
  <2>2. ASSUME client'[c] = "sent"
        PROVE  /\ Owed' \cap RawClients \subseteq {c}
               /\ \A i \in 1..Len(answers'[c]) : answers'[c][i] = Served(c)'
    <3>1. client[c] = "sent" /\ Past(c)
      BY <1>2, <2>2 DEF Past
    <3>2. Served(c)' = Served(c)
      BY <2>1, <3>1 DEF Framed
    <3>3. Owed \cap RawClients \subseteq {c}
          /\ \A j \in 1..Len(answers[c]) : answers[c][j] = Served(c)
      BY <3>1 DEF DgramInv, AloneAtPort
    <3>4. Takes(c, caddr) => d = c
      BY <1>3, <3>3 DEF Takes, Owed
    <3>5. \A i \in 1..Len(answers'[c]) : answers'[c][i] = Served(c)'
      BY <1>3, <1>5, <2>1, <3>2, <3>3, <3>4
    <3> QED
      BY <1>11, <3>3, <3>5
  <2>3. ASSUME reply'[c] # <<>>
        PROVE  reply'[c] = Filled(Served(c)', Blank(c))
    BY <1>2, <2>1, <2>3 DEF DgramInv, RepliesKnown, AloneAtPort, Framed
  <2> QED
    BY <2>2, <2>3
<1> QED
  BY <1>6, <1>7, <1>9, <1>10, <1>12 DEF DgramInv

\* sendto() of a client: a raw one crosses the raw clients that wait.
LEMMA SendsKeepsInv ==
  ASSUME DgramInv, Framed, NEW c \in Everybody, NEW n \in TextLengths, Sends(c, n)
  PROVE  DgramInv'
<1> DEFINE m == [from |-> c, bytes |-> Datagram(c, n)]
           Requests == [from : Everybody, bytes : Seq(Bytes)]
           others == {d \in RawClients \ {c} : client[d] = "sent"}
<1>1. DgramTypes /\ RequestsKnown /\ RepliesKnown
  BY DEF DgramInv
<1>2. /\ client[c] = "connected"
      /\ client' = [client EXCEPT ![c] = "sent"] /\ typed' = [typed EXCEPT ![c] = n]
      /\ requests' = requests \/ requests' = Append(requests, m)
      /\ crossed' = IF c \notin RawClients THEN crossed
                    ELSE crossed \cup others
                           \cup (IF others \cup (Owed \cap RawClients) # {} \/ answers[c] # <<>>
                                 THEN {c} ELSE {})
      /\ UNCHANGED <<family, reply, server, buf, caddr, answers>>
  BY DEF Sends
<1>3. n \in 0..Size
  BY DatagramAssumption
<1>4. ~Past(c) /\ Past(c)' /\ Asked(c)' = Datagram(c, n)
  <2>1. typed'[c] = n /\ client'[c] = "sent"
    BY <1>1, <1>2 DEF DgramTypes
  <2> QED
    BY <1>2, <2>1, AskedIs DEF Past
<1>5. m \in Requests /\ m.from = c /\ m.bytes = Asked(c)'
  BY <1>3, <1>4, DatagramBytes
<1> HIDE DEF m
<1>6. /\ requests' \in Seq(Requests)
      /\ \A i \in 1..Len(requests') :
           \/ i \in 1..Len(requests) /\ requests'[i] = requests[i]
           \/ requests'[i] = m
  <2>1. requests \in Seq(Requests)
    BY <1>1 DEF DgramTypes
  <2> HIDE DEF Requests
  <2>2. CASE requests' = requests
    BY <2>1, <2>2
  <2>3. CASE requests' = Append(requests, m)
    <3>1. /\ Append(requests, m) \in Seq(Requests)
          /\ Len(Append(requests, m)) = Len(requests) + 1
          /\ \A i \in 1..Len(requests) : Append(requests, m)[i] = requests[i]
          /\ Append(requests, m)[Len(requests) + 1] = m
      BY <1>5, <2>1, AppendProperties
    <3>2. Len(requests) \in Nat
      BY <2>1
    <3> QED
      BY <2>3, <3>1, <3>2
  <2> QED
    BY <1>2, <2>2, <2>3
<1>7. DgramTypes'
  BY <1>1, <1>2, <1>3, <1>6 DEF DgramTypes, Requests
<1>8. RequestsKnown'
  <2>1. ASSUME NEW d \in Everybody, NEW i \in 1..Len(requests'), requests'[i].from = d
        PROVE  Past(d)' /\ requests'[i].bytes = Asked(d)'
    <3>1. CASE i \in 1..Len(requests) /\ requests'[i] = requests[i]
      BY <1>1, <2>1, <3>1 DEF RequestsKnown, Framed
    <3>2. CASE requests'[i] = m
      <4>1. d = c
        BY <1>5, <2>1, <3>2
      <4> QED
        BY <1>4, <1>5, <3>2, <4>1
    <3> QED
      BY <1>6, <3>1, <3>2
  <2>2. \A d \in Everybody : caddr' = d => Past(d)' /\ buf' = Served(d)'
    BY <1>1, <1>2 DEF RequestsKnown, Framed
  <2>3. caddr' \in IF server' = "send" THEN Everybody ELSE {None}
    BY <1>1, <1>2 DEF RequestsKnown
  <2> QED
    BY <2>1, <2>2, <2>3 DEF RequestsKnown
<1>9. NoNewAnswers
  BY <1>2 DEF NoNewAnswers
<1>10. AnswersKnown'
  BY <1>9, AnswersFrame
<1>11. RepliesKnown'
  <2>1. \A d \in Everybody : Past(d)' \/ typed'[d] = typed[d]
    BY <1>1, <1>2, <1>4 DEF DgramTypes
  <2> QED
    BY <1>2, <2>1, RepliesFrame
<1>12. Owed' \subseteq Owed \cup {c}
  BY <1>2, <1>5, <1>6 DEF Owed
<1>13. AloneAtPort'
  <2> SUFFICES ASSUME NEW e \in RawClients \ crossed'
               PROVE  /\ client'[e] = "sent" =>
                           /\ Owed' \cap RawClients \subseteq {e}
                           /\ \A i \in 1..Len(answers'[e]) : answers'[e][i] = Served(e)'
                      /\ reply'[e] # <<>> => reply'[e] = Filled(Served(e)', Blank(e))
    BY Zenon DEF AloneAtPort, Filled, Blank, Zero, Junk, Promise!Zero, Promise!Junk
  <2>1. e \in Everybody /\ e \in RawClients \ crossed
    BY <1>2 DEF Everybody
  <2>2. CASE e = c
    <3>1. Owed \cap RawClients = {} /\ answers[c] = <<>>
      BY <1>2, <2>2
    <3>2. Len(answers'[e]) = 0
      BY <1>2, <2>2, <3>1
    <3>3. reply'[e] = <<>>
      BY <1>1, <1>2, <1>4, <2>2 DEF RepliesKnown
    <3> QED
      BY <1>12, <2>2, <3>1, <3>2, <3>3
  <2>3. CASE e # c
    <3>1. client'[e] = client[e]
      BY <1>1, <1>2, <2>1, <2>3 DEF DgramTypes
    <3>2. ASSUME client'[e] = "sent"
          PROVE  /\ Owed' \cap RawClients \subseteq {e}
                 /\ \A i \in 1..Len(answers'[e]) : answers'[e][i] = Served(e)'
      <4>1. c \notin RawClients
        <5> SUFFICES ASSUME c \in RawClients PROVE FALSE
          OBVIOUS
        <5>1. e \in others
          BY <2>3, <3>1, <3>2
        <5>2. others \subseteq crossed'
          BY <1>2
        <5> QED
          BY <5>1, <5>2
      <4>2. client[e] = "sent" /\ Past(e)
        BY <3>1, <3>2 DEF Past
      <4>3. Served(e)' = Served(e)
        BY <2>1, <4>2 DEF Framed
      <4>4. Owed \cap RawClients \subseteq {e}
            /\ \A i \in 1..Len(answers[e]) : answers[e][i] = Served(e)
        BY <2>1, <4>2 DEF DgramInv, AloneAtPort
      <4> QED
        BY <1>2, <1>12, <4>1, <4>3, <4>4
    <3>3. ASSUME reply'[e] # <<>>
          PROVE  reply'[e] = Filled(Served(e)', Blank(e))
      BY <1>2, <2>1, <3>3 DEF DgramInv, RepliesKnown, AloneAtPort, Framed
    <3> QED
      BY <3>2, <3>3
  <2> QED
    BY <2>2, <2>3
<1> QED
  BY <1>7, <1>8, <1>10, <1>11, <1>13 DEF DgramInv

\* recvfrom() of a client: it takes the first answer that has come for it.
LEMMA GetsKeepsInv ==
  ASSUME DgramInv, Framed, NEW c \in Everybody, Gets(c)
  PROVE  /\ DgramInv'
         /\ \E d \in Everybody : Past(d) /\ Reaches(d, c)
              /\ reply' = [reply EXCEPT ![c] = Filled(Served(d), Blank(c))]
<1>1. DgramTypes /\ AnswersKnown /\ RepliesKnown /\ AloneAtPort
  BY DEF DgramInv
<1>2. /\ client[c] = "sent" /\ answers[c] # <<>> /\ reply[c] = <<>>
      /\ reply' = [reply EXCEPT ![c] = Filled(Head(answers[c]), Blank(c))]
      /\ answers' = [answers EXCEPT ![c] = Tail(@)]
      /\ UNCHANGED <<family, client, typed, requests, server, buf, caddr, crossed>>
  BY DEF Gets, Blank
<1>3. /\ 1 \in 1..Len(answers[c]) /\ Head(answers[c]) = answers[c][1]
      /\ Tail(answers[c]) \in Seq(Seq(Bytes))
      /\ Len(Tail(answers[c])) = Len(answers[c]) - 1
      /\ \A i \in 1..Len(Tail(answers[c])) :
           i + 1 \in 1..Len(answers[c]) /\ Tail(answers[c])[i] = answers[c][i + 1]
  <2>1. answers[c] \in Seq(Seq(Bytes))
    BY <1>1 DEF DgramTypes
  <2> QED
    BY <1>2, <2>1
<1>4. PICK d \in Everybody : Past(d) /\ Reaches(d, c) /\ answers[c][1] = Served(d)
  BY <1>1, <1>3 DEF AnswersKnown
<1>5. reply' = [reply EXCEPT ![c] = Filled(Served(d), Blank(c))]
  BY <1>2, <1>3, <1>4
<1>6. Past(c)
  BY <1>2 DEF Past
<1>7. /\ answers'[c] = Tail(answers[c]) /\ reply'[c] = Filled(Served(d), Blank(c))
      /\ \A e \in Everybody \ {c} : answers'[e] = answers[e] /\ reply'[e] = reply[e]
  BY <1>1, <1>2, <1>5 DEF DgramTypes
<1>8. DgramTypes'
  <2>1. Filled(Served(d), Blank(c)) \in Seq(Bytes)
    <3>1. Blank(c) \in Bytes
      BY DEF Blank, Zero, Junk, Promise!Zero, Promise!Junk, Bytes
    <3>2. Served(d) \in Seq(Bytes)
      BY <1>1, ServedBytes
    <3>3. Size \in Nat
      BY DatagramAssumption
    <3>4. Filled(Served(d), Blank(c)) \in [1..Size -> Bytes]
      BY <3>1, <3>2, <3>3 DEF Filled
    <3> QED
      BY <3>3, <3>4
  <2>2. answers' \in [Everybody -> Seq(Seq(Bytes))]
    BY <1>1, <1>2, <1>3 DEF DgramTypes
  <2> QED
    BY <1>1, <1>2, <1>5, <2>1, <2>2 DEF DgramTypes
<1>9. NoNewAnswers
  <2> SUFFICES ASSUME NEW e \in Everybody, NEW i \in 1..Len(answers'[e])
               PROVE  \E j \in 1..Len(answers[e]) : answers'[e][i] = answers[e][j]
    BY DEF NoNewAnswers
  <2>1. CASE e = c
    BY <1>3, <1>7, <2>1
  <2>2. CASE e # c
    BY <1>7, <2>2
  <2> QED
    BY <2>1, <2>2
<1>10. RequestsKnown' /\ AnswersKnown'
  BY <1>2, <1>9, RequestsFrame, AnswersFrame
<1>11. RepliesKnown'
  <2> SUFFICES ASSUME NEW e \in Everybody
               PROVE  /\ ~Past(e)' => typed'[e] = 0
                      /\ reply'[e] # <<>> =>
                           Past(e)' /\ \E f \in Everybody :
                             Past(f)' /\ Reaches(f, e) /\ reply'[e] = Filled(Served(f)', Blank(e))
    BY Zenon DEF RepliesKnown, Reaches, Filled, Blank, Zero, Junk, Promise!Zero, Promise!Junk
  <2>1. CASE e = c
    BY <1>4, <1>6, <1>7, <2>1 DEF Framed
  <2>2. CASE e # c
    BY <1>1, <1>2, <1>7, <2>2 DEF RepliesKnown, Framed
  <2> QED
    BY <2>1, <2>2
<1>12. AloneAtPort'
  <2> SUFFICES ASSUME NEW e \in RawClients \ crossed
               PROVE  /\ client'[e] = "sent" =>
                           /\ Owed' \cap RawClients \subseteq {e}
                           /\ \A i \in 1..Len(answers'[e]) : answers'[e][i] = Served(e)'
                      /\ reply'[e] # <<>> => reply'[e] = Filled(Served(e)', Blank(e))
    BY <1>2, Zenon DEF AloneAtPort, Filled, Blank, Zero, Junk, Promise!Zero, Promise!Junk
  <2>1. e \in Everybody
    BY DEF Everybody
  <2>2. ASSUME client'[e] = "sent"
        PROVE  /\ Owed' \cap RawClients \subseteq {e}
               /\ \A i \in 1..Len(answers'[e]) : answers'[e][i] = Served(e)'
    <3>1. client[e] = "sent" /\ Past(e)
      BY <1>2, <2>2 DEF Past
    <3>2. Served(e)' = Served(e)
      BY <2>1, <3>1 DEF Framed
    <3>3. Owed \cap RawClients \subseteq {e}
          /\ \A i \in 1..Len(answers[e]) : answers[e][i] = Served(e)
      BY <1>1, <3>1 DEF AloneAtPort
    <3>4. Owed' = Owed
      BY <1>2 DEF Owed
    <3> QED
      BY <1>9, <2>1, <3>2, <3>3, <3>4 DEF NoNewAnswers
  <2>3. ASSUME reply'[e] # <<>>
        PROVE  reply'[e] = Filled(Served(e)', Blank(e))
    <3>1. CASE e = c
      <4>1. answers[c][1] = Served(c) /\ Served(c)' = Served(c)
        BY <1>1, <1>2, <1>3, <1>6, <3>1 DEF AloneAtPort, Framed
      <4> QED
        BY <1>4, <1>7, <3>1, <4>1
    <3>2. CASE e # c
      BY <1>1, <1>7, <2>1, <2>3, <3>2 DEF RepliesKnown, AloneAtPort, Framed
    <3> QED
      BY <3>1, <3>2
  <2> QED
    BY <2>2, <2>3
<1> QED
  BY <1>4, <1>5, <1>8, <1>10, <1>11, <1>12 DEF DgramInv
----------------------------------------------------------------------------
\* Every step preserves the invariant.
LEMMA DgramStepInv == DgramInv /\ [DgramNext]_dgramVars => DgramInv'
<1> SUFFICES ASSUME DgramInv, [DgramNext]_dgramVars PROVE DgramInv'
  OBVIOUS
<1>1. CASE DgramNext
  <2>1. Framed
    BY <1>1, TextsStay DEF DgramInv
  <2> QED
    BY <1>1, <2>1, StartAndEndKeepInv, ServerReceivesKeepsInv, ServerSendsKeepsInv,
       SendsKeepsInv, GetsKeepsInv DEF DgramNext, ServerNext, ClientNext
<1>2. CASE UNCHANGED dgramVars
  <2> USE <1>2 DEF dgramVars
  <2>1. Framed
    BY PastStays DEF Framed
  <2>2. NoNewAnswers /\ Owed' = Owed
    BY DEF NoNewAnswers, Owed
  <2>3. DgramTypes'
    BY DEF DgramInv, DgramTypes
  <2> QED
    BY <2>1, <2>2, <2>3, RequestsFrame, AnswersFrame, RepliesFrame, AloneFrame DEF DgramInv
<1> QED
  BY <1>1, <1>2

\* A raw client shows an answer to a raw client, and its own one if no other
\* was due while it waited (RAW/IP/client.c:79).
THEOREM RawClientsAnswered == DgramSpec => []RawAnswers
<1>1. DgramInv => RawAnswers
  <2> SUFFICES ASSUME DgramInv, NEW c \in RawClients, reply[c] # <<>>
               PROVE  /\ \E d \in RawClients :
                           reply[c] = Filled([i \in 1..typed[d] |-> Promise!Upper(d, i)], Zero)
                      /\ c \notin crossed =>
                           reply[c] = Filled([i \in 1..typed[c] |-> Promise!Upper(c, i)], Zero)
    BY DEF RawAnswers
  <2>1. ASSUME NEW d \in RawClients
        PROVE  Filled(Served(d), Blank(c)) =
                 Filled([i \in 1..typed[d] |-> Promise!Upper(d, i)], Zero)
    <3>1. typed[d] \in Nat /\ d \in Everybody /\ DgramTypes
      BY DatagramAssumption DEF DgramInv, DgramTypes, Everybody
    <3>2. Blank(c) = Zero /\ Blank(d) = Zero
      BY DEF Blank
    <3>3. Filled(Served(d), Zero) =
            [i \in 1..Size |-> IF i <= typed[d] THEN Promise!Upper(d, i) ELSE Zero]
      BY <3>1, <3>2, ServedBytes
    <3> DEFINE text == [i \in 1..typed[d] |-> Promise!Upper(d, i)]
    <3>4. Len(text) = typed[d]
      BY <3>1
    <3>5. \A i \in 1..Size : (IF i <= typed[d] THEN Promise!Upper(d, i) ELSE Zero)
                              = IF i <= Len(text) THEN text[i] ELSE Zero
      BY <3>1, <3>4
    <3> HIDE DEF text
    <3>6. Filled(Served(d), Zero) = Filled(text, Zero)
      BY <3>3, <3>5 DEF Filled
    <3> QED
      BY <3>2, <3>6 DEF text
  <2>2. c \in Everybody
    BY DEF Everybody
  <2>3. PICK d \in RawClients : reply[c] = Filled(Served(d), Blank(c))
    BY <2>2 DEF DgramInv, RepliesKnown, Reaches
  <2>4. c \notin crossed => reply[c] = Filled(Served(c), Blank(c))
    BY DEF DgramInv, AloneAtPort
  <2> QED
    BY <2>1, <2>3, <2>4
<1> QED
  BY <1>1, DgramInitInv, DgramStepInv, PTL DEF DgramSpec

\* For clients with an address of their own the datagram servers implement
\* EchoService, whoever else is served between: a step is a client's step, an
\* answer made of the client's own bytes, or invisible to these clients.
THEOREM DatagramServersEcho == DgramSpec => DatagramPromise
<1> DEFINE states == [c \in Owners |-> client[c]]
           shown == [c \in Owners |-> IF typed[c] = 0 THEN <<>> ELSE reply[c]]
<1>1. DgramInit => Promise!Init
  BY DEF DgramInit, Promise!Init, Everybody
<1>2. ASSUME DgramInv, [DgramNext]_dgramVars PROVE [Promise!Next]_<<states, shown>>
  <2> USE <1>2
  <2>0. DgramTypes /\ RepliesKnown /\ Owners \subseteq Everybody
        /\ \A c \in RawClients : c \notin Owners
    BY DatagramAssumption DEF DgramInv, Everybody
  <2>1. CASE UNCHANGED dgramVars \/ ServerBinds \/ ServerReceives \/ ServerSends
    BY <2>1 DEF dgramVars, ServerBinds, ServerReceives, ServerSends
  <2>2. ASSUME NEW c \in Everybody, Opens(c) \/ Prints(c)
        PROVE  [Promise!Next]_<<states, shown>>
    <3>1. /\ client[c] \in {"start", "sent"}
          /\ client' = [client EXCEPT ![c] = IF client[c] = "start" THEN "connected" ELSE "closed"]
          /\ typed' = typed /\ reply' = reply
      BY <2>2 DEF Opens, Prints
    <3>2. CASE c \notin Owners
      BY <2>0, <3>1, <3>2 DEF DgramTypes
    <3>3. CASE c \in Owners
      <4>1. shown' = shown /\ states[c] = client[c]
            /\ states' = [states EXCEPT ![c] = IF client[c] = "start" THEN "connected" ELSE "closed"]
        BY <2>0, <3>1, <3>3 DEF DgramTypes
      <4> HIDE DEF shown, states
      <4> QED
        BY <3>1, <3>3, <4>1 DEF Promise!Next, Promise!Step, shown, states
    <3> QED
      BY <3>2, <3>3
  <2>3. ASSUME NEW c \in Everybody, NEW n \in TextLengths, Sends(c, n)
        PROVE  [Promise!Next]_<<states, shown>>
    <3>1. /\ client[c] = "connected" /\ client' = [client EXCEPT ![c] = "sent"]
          /\ typed' = [typed EXCEPT ![c] = n] /\ reply' = reply
      BY <2>3 DEF Sends
    <3>2. CASE c \notin Owners
      BY <2>0, <3>1, <3>2 DEF DgramTypes
    <3>3. CASE c \in Owners
      <4>1. reply[c] = <<>>
        BY <2>0, <3>1 DEF RepliesKnown, Past
      <4>2. shown' = shown /\ states[c] = "connected" /\ states' = [states EXCEPT ![c] = "sent"]
        BY <2>0, <3>1, <3>3, <4>1 DEF DgramTypes
      <4> HIDE DEF shown, states
      <4> QED
        BY <3>3, <4>2 DEF Promise!Next, Promise!Step, shown, states
    <3> QED
      BY <3>2, <3>3
  <2>4. ASSUME NEW c \in Everybody, Gets(c)
        PROVE  [Promise!Next]_<<states, shown>>
    <3>1. /\ client[c] = "sent" /\ reply[c] = <<>> /\ client' = client /\ typed' = typed
      BY <2>4 DEF Gets
    <3>2. Framed
      BY <2>0, <2>4, TextsStay DEF DgramNext, ClientNext
    <3>3. PICK d \in Everybody : Reaches(d, c)
            /\ reply' = [reply EXCEPT ![c] = Filled(Served(d), Blank(c))]
      BY <2>4, <3>2, GetsKeepsInv
    <3>4. CASE c \notin Owners \/ typed[c] = 0
      BY <2>0, <3>1, <3>3, <3>4 DEF DgramTypes
    <3>5. CASE c \in Owners /\ typed[c] # 0
      <4>1. d = c /\ Blank(c) = Junk
        BY <2>0, <3>3, <3>5 DEF Reaches, Blank
      <4> DEFINE answer == [i \in 1..Size |->
                              IF i <= typed[c] THEN Promise!Upper(c, i) ELSE Junk]
      <4>2. reply' = [reply EXCEPT ![c] = answer]
        BY <2>0, <3>3, <4>1, ServedBytes
      <4>3. answer \in Promise!Echoes(c)
        <5> DEFINE rest == [i \in 1..Size |-> Junk]
        <5>1. typed[c] \in 1..Size
          BY <2>0, <3>5, DatagramAssumption DEF DgramTypes
        <5>2. rest \in [1..Size -> {Promise!Zero, Promise!Junk}]
          BY DEF Junk
        <5> DEFINE Mixed(n, r) ==
                     [i \in 1..Size |-> IF i <= n THEN Promise!Upper(c, i) ELSE r[i]]
        <5>3. answer = Mixed(typed[c], rest)
          OBVIOUS
        <5>4. Promise!Echoes(c) =
                {Mixed(n, r) : n \in 1..Size, r \in [1..Size -> {Promise!Zero, Promise!Junk}]}
          BY DEF Promise!Echoes
        <5> HIDE DEF rest, answer, Mixed
        <5> QED
          BY <5>1, <5>2, <5>3, <5>4
      <4> HIDE DEF answer
      <4>4. /\ states' = states /\ states[c] = "sent" /\ shown[c] = <<>>
            /\ shown' = [shown EXCEPT ![c] = answer]
        BY <2>0, <3>1, <3>5, <4>2 DEF DgramTypes
      <4> HIDE DEF shown, states
      <4>5. Promise!Answer(c)
        BY <4>3, <4>4 DEF Promise!Answer, shown, states
      <4> QED
        BY <3>5, <4>5 DEF Promise!Next
    <3> QED
      BY <3>4, <3>5
  <2> QED
    BY <2>1, <2>2, <2>3, <2>4 DEF DgramNext, ServerNext, ClientNext
<1> QED
  BY <1>1, <1>2, DgramInitInv, DgramStepInv, PTL DEF DgramSpec, DatagramPromise, Promise!Spec
----------------------------------------------------------------------------
(* The command interpreters *)

Dead == {"zombie", "reaped"}

\* The commands of the line that read the pipe to its end.
PipeSinks == {k \in 1..Len(line) : line[k] = "sink" /\ FromPipe(k)}

ShellTypes ==
  /\ shell \in {"prompt", "fork", "wait", "crashed", "ended"}
  /\ line \in Seq(Programs) /\ Len(line) <= MaxCommands
  /\ child \in [Children -> {"none", "forked", "runs"} \cup Dead]
  /\ ends \in [{0} \cup Children -> SUBSET {"r", "w"}]
  /\ pipe \in Seq(Children) /\ got \in Seq(Children)
  /\ wrote \in [Children -> Nat]
  /\ \A k \in Children : k > Len(line) => child[k] = "none"
  /\ \A k \in 1..Len(line) : wrote[k] <= Quota(k)

\* Who is born when.
Births ==
  /\ shell = "wait" => Unborn = {}
  /\ shell \in {"prompt", "ended"} => \A k \in Children : child[k] = "none"

\* Who holds which ends of the pipe.
Holds ==
  /\ shell = "fork" /\ piped => ends[0] = {"r", "w"}
  /\ shell # "fork" \/ ~piped => ends[0] = {}
  /\ \A k \in Children :
       /\ child[k] \in {"none"} \cup Dead \/ ~piped => ends[k] = {}
       /\ child[k] = "forked" /\ piped => ends[k] = {"r", "w"}
       /\ child[k] = "runs" /\ piped => ends[k] = {IF ToPipe(k) THEN "w" ELSE "r"}

NothingLost == \A k \in Feeders : Cardinality(ItemsOf(k, got \o pipe)) = wrote[k]

\* A command that has read the pipe to its end has outlived those that write to
\* it, and while there is one to read it nobody is killed by a write.
SinksLast ==
  shell # "crashed" =>
    /\ \A k \in PipeSinks, m \in Feeders : child[k] \in Dead => child[m] \in Dead
    /\ \A k \in PipeSinks, m \in Feeders : child[m] \in Dead => wrote[m] = Quota(m)

ShellInv == ShellTypes /\ Births /\ Holds /\ NothingLost /\ SinksLast

LEMMA ShellInvRight == ShellInv => PipelineRight
<1> SUFFICES ASSUME ShellInv PROVE PipelineRight
  OBVIOUS
<1>1. ASSUME shell # "crashed", NEW k \in 1..Len(line), child[k] \in Dead, line[k] = "sink",
             FromPipe(k), NEW m \in Feeders
      PROVE  child[m] \in Dead /\ wrote[m] = Quota(m)
  BY <1>1 DEF ShellInv, SinksLast, PipeSinks
<1>2. ASSUME shell = "prompt", NEW h \in DOMAIN ends PROVE ends[h] = {}
  BY <1>2 DEF ShellInv, ShellTypes, Births, Holds
<1> QED
  BY <1>1, <1>2 DEF PipelineRight, ShellInv, NothingLost, Dead

\* An item more at the end of a stream.
LEMMA OneItemMore ==
  ASSUME NEW s \in Seq(Children), NEW k \in Children, NEW m \in Children
  PROVE  /\ Cardinality(ItemsOf(m, s)) \in Nat
         /\ Cardinality(ItemsOf(m, Append(s, k))) =
              Cardinality(ItemsOf(m, s)) + (IF k = m THEN 1 ELSE 0)
<1>1. /\ Len(s) \in Nat /\ Len(Append(s, k)) = Len(s) + 1
      /\ Append(s, k)[Len(s) + 1] = k /\ \A i \in 1..Len(s) : Append(s, k)[i] = s[i]
  OBVIOUS
<1>2. ItemsOf(m, Append(s, k)) = IF k = m THEN ItemsOf(m, s) \cup {Len(s) + 1} ELSE ItemsOf(m, s)
  BY <1>1 DEF ItemsOf
<1>3. IsFiniteSet(ItemsOf(m, s)) /\ Cardinality(ItemsOf(m, s)) \in Nat
  <2>1. ItemsOf(m, s) \in SUBSET (1..Len(s))
    BY DEF ItemsOf
  <2>2. IsFiniteSet(1..Len(s))
    BY <1>1, FS_Interval
  <2>3. IsFiniteSet(ItemsOf(m, s))
    BY <2>1, <2>2, FS_Subset
  <2> QED
    BY <2>3, FS_CardinalityType
<1>4. Len(s) + 1 \notin ItemsOf(m, s)
  BY <1>1 DEF ItemsOf
<1>5. Cardinality(ItemsOf(m, s) \cup {Len(s) + 1}) = Cardinality(ItemsOf(m, s)) + 1
  BY <1>3, <1>4, FS_AddElement
<1> QED
  BY <1>2, <1>3, <1>5

LEMMA ShellInitInv == ShellInit => ShellInv
<1> SUFFICES ASSUME ShellInit PROVE ShellInv
  OBVIOUS
<1>1. Len(line) = 0 /\ 1..Len(line) = {}
  BY DEF ShellInit
<1>2. ShellTypes
  BY <1>1, ShellAssumption DEF ShellInit, ShellTypes, Children
<1>3. Births /\ Holds
  BY DEF ShellInit, Births, Holds
<1>4. NothingLost /\ SinksLast
  BY <1>1 DEF NothingLost, SinksLast, Feeders
<1> QED
  BY <1>2, <1>3, <1>4 DEF ShellInv

\* A new line: no child is left, and there is a new pipe.
LEMMA ReadLineKeepsInv ==
  ASSUME ShellInv, NEW l \in Seq(Programs), Len(l) <= MaxCommands, ReadLine(l)
  PROVE  ShellInv'
<1>1. \A k \in Children : child[k] = "none" /\ child'[k] = "none" /\ ends'[k] = {} /\ wrote'[k] = 0
  BY DEF ShellInv, ShellTypes, Births, Holds, ReadLine, Children
<1>2. Len(l) \in Nat /\ 1..Len(l) \subseteq Children
  BY ShellAssumption DEF Children
<1>3. \A k \in 1..Len(l) : Quota(k)' \in Nat
  BY ShellAssumption DEF Quota, ReadLine
<1>4. ShellTypes'
  <2>1. ends' \in [{0} \cup Children -> SUBSET {"r", "w"}]
    BY DEF ShellInv, ShellTypes, ReadLine
  <2>2. \A k \in 1..Len(l) : wrote'[k] <= Quota(k)'
    BY <1>1, <1>2, <1>3
  <2>3. wrote' \in [Children -> Nat] /\ pipe' = <<>> /\ got' = <<>> /\ line' = l
        /\ shell' = "fork" /\ UNCHANGED child
    BY DEF ReadLine
  <2> QED
    BY <1>1, <2>1, <2>2, <2>3 DEF ShellInv, ShellTypes
<1>5. Births' /\ Holds'
  <2>1. ends'[0] = IF piped THEN {"r", "w"} ELSE {}
    BY DEF ShellInv, ShellTypes, Births, Holds, ReadLine
  <2> QED
    BY <1>1, <2>1 DEF Births, Holds, ReadLine, Dead
<1>6. NothingLost'
  <2> SUFFICES ASSUME NEW k \in Feeders' PROVE Cardinality(ItemsOf(k, got' \o pipe')) = wrote'[k]
    BY DEF NothingLost, ItemsOf
  <2>1. k \in Children
    BY <1>2 DEF Feeders, ReadLine
  <2>2. Len(got' \o pipe') = 0
    BY DEF ReadLine
  <2>3. ItemsOf(k, got' \o pipe') = {}
    BY <2>2 DEF ItemsOf
  <2> QED
    BY <1>1, <2>1, <2>3, FS_EmptySet
<1>7. SinksLast'
  BY <1>1, <1>2 DEF SinksLast, Dead, Feeders, PipeSinks, ReadLine
<1> QED
  BY <1>4, <1>5, <1>6, <1>7 DEF ShellInv

\* The line that is there: its commands have a child each.
LEMMA OfTheLine ==
  ASSUME ShellInv
  PROVE  /\ Len(line) \in Nat /\ 1..Len(line) \subseteq Children
         /\ Unborn \subseteq Children /\ Feeders \subseteq Children
         /\ PipeSinks \subseteq Children
<1>1. Len(line) \in Nat /\ Len(line) <= MaxCommands
  BY DEF ShellInv, ShellTypes
<1>2. 1..Len(line) \subseteq Children
  BY <1>1, ShellAssumption DEF Children
<1> QED
  BY <1>1, <1>2 DEF Unborn, Feeders, PipeSinks

\* A step that leaves the line and the pipe alone loses nothing.
LEMMA SameItems ==
  ASSUME NothingLost, UNCHANGED <<piped, line, pipe, got, wrote>>
  PROVE  NothingLost'
BY DEF NothingLost, Feeders, ToPipe, ItemsOf

\* The exit, and the crash of main.
LEMMA LeaveKeepsInv ==
  ASSUME ShellInv, Exit \/ Miscount \/ \E l \in Lines : Overfill(l)
  PROVE  ShellInv'
<1>1. UNCHANGED <<piped, line, pipe, got, wrote, child>>
  BY DEF Exit, Miscount, Overfill
<1>2. NothingLost'
  BY <1>1, SameItems DEF ShellInv
<1>3. ShellTypes'
  BY <1>1 DEF ShellInv, ShellTypes, Exit, Miscount, Overfill, Quota, Children
<1>4. Births' /\ SinksLast'
  BY <1>1 DEF ShellInv, Births, SinksLast, Exit, Miscount, Overfill, Feeders, PipeSinks, ToPipe,
              FromPipe, Quota
<1>5. Holds'
  <2>1. CASE Exit
    BY <2>1, <1>1 DEF ShellInv, Holds, Exit, ToPipe
  <2>2. CASE Miscount
    <3>1. ends'[0] = {} /\ \A k \in Children : ends'[k] = ends[k]
      BY <2>2 DEF ShellInv, ShellTypes, Miscount, Children
    <3> QED
      BY <1>1, <2>2, <3>1 DEF ShellInv, Holds, Miscount, ToPipe
  <2>3. CASE \E l \in Lines : Overfill(l)
    BY <2>3, <1>1 DEF ShellInv, Holds, Overfill, ToPipe
  <2> QED
    BY <2>1, <2>2, <2>3
<1> QED
  BY <1>2, <1>3, <1>4, <1>5 DEF ShellInv

\* main has forked all, and closes its ends.
LEMMA ClosePipeKeepsInv == ASSUME ShellInv, ClosePipe PROVE ShellInv'
<1>1. UNCHANGED <<piped, line, pipe, got, wrote, child>>
  BY DEF ClosePipe
<1>2. NothingLost'
  BY <1>1, SameItems DEF ShellInv
<1>3. ShellTypes'
  BY <1>1 DEF ShellInv, ShellTypes, ClosePipe, Quota, Children
<1>4. Births' /\ SinksLast'
  BY <1>1 DEF ShellInv, Births, SinksLast, ClosePipe, Feeders, PipeSinks, ToPipe, FromPipe,
              Quota, Unborn
<1>5. Holds'
  <2>1. ends'[0] = {} /\ \A k \in Children : ends'[k] = ends[k]
    BY DEF ShellInv, ShellTypes, ClosePipe, Children
  <2> QED
    BY <1>1, <2>1 DEF ShellInv, Holds, ClosePipe, ToPipe
<1> QED
  BY <1>2, <1>3, <1>4, <1>5 DEF ShellInv

\* A child is born with both ends.
LEMMA ForkKeepsInv == ASSUME ShellInv, Fork PROVE ShellInv'
<1>1. UNCHANGED <<piped, shell, line, pipe, got, wrote>> /\ shell = "fork"
  BY DEF Fork
<1>2. PICK k \in Unborn : /\ child' = [child EXCEPT ![k] = "forked"]
                          /\ ends' = [ends EXCEPT ![k] = ends[0]]
  BY DEF Fork
<1>3. k \in Children /\ k \in 1..Len(line) /\ child[k] = "none"
  BY <1>2, OfTheLine DEF Unborn
<1>4. /\ child'[k] = "forked" /\ \A m \in Children \ {k} : child'[m] = child[m]
      /\ ends'[k] = ends[0] /\ ends'[0] = ends[0] /\ \A m \in Children \ {k} : ends'[m] = ends[m]
  BY <1>2, <1>3, ShellAssumption DEF ShellInv, ShellTypes, Children
<1>5. NothingLost'
  BY <1>1, SameItems DEF ShellInv
<1>6. ShellTypes'
  <2>1. child' \in [Children -> {"none", "forked", "runs"} \cup Dead]
    BY <1>2, <1>3 DEF ShellInv, ShellTypes
  <2>2. ends' \in [{0} \cup Children -> SUBSET {"r", "w"}]
    BY <1>2, <1>3 DEF ShellInv, ShellTypes
  <2>3. \A m \in Children : m > Len(line) => child'[m] = "none"
    BY <1>3, <1>4 DEF ShellInv, ShellTypes
  <2> QED
    BY <1>1, <2>1, <2>2, <2>3 DEF ShellInv, ShellTypes, Quota
<1>7. Births'
  BY <1>1 DEF Births
<1>8. Holds'
  BY <1>1, <1>3, <1>4 DEF ShellInv, Holds, ToPipe, Dead
<1>9. SinksLast'
  <2>1. \A m \in Children : child'[m] \in Dead <=> child[m] \in Dead
    BY <1>3, <1>4 DEF Dead
  <2> QED
    BY <1>1, <2>1, OfTheLine DEF ShellInv, SinksLast, Feeders, PipeSinks, ToPipe, FromPipe, Quota
<1> QED
  BY <1>5, <1>6, <1>7, <1>8, <1>9 DEF ShellInv

\* A dead child is waited for.
LEMMA WaitKeepsInv == ASSUME ShellInv, Wait PROVE ShellInv'
<1>1. UNCHANGED <<piped, shell, line, pipe, got, wrote, ends>> /\ shell = "wait"
  BY DEF Wait
<1>2. PICK k \in Children : child[k] = "zombie" /\ child' = [child EXCEPT ![k] = "reaped"]
  BY DEF Wait
<1>3. child'[k] = "reaped" /\ \A m \in Children \ {k} : child'[m] = child[m]
  BY <1>2 DEF ShellInv, ShellTypes
<1>4. NothingLost'
  BY <1>1, SameItems DEF ShellInv
<1>5. ShellTypes'
  <2>1. child' \in [Children -> {"none", "forked", "runs"} \cup Dead]
    BY <1>2 DEF ShellInv, ShellTypes, Dead
  <2>2. \A m \in Children : m > Len(line) => child'[m] = "none"
    BY <1>2, <1>3 DEF ShellInv, ShellTypes
  <2> QED
    BY <1>1, <2>1, <2>2 DEF ShellInv, ShellTypes, Quota
<1>6. Births'
  BY <1>1, <1>2, <1>3, OfTheLine DEF ShellInv, Births, Unborn
<1>7. Holds'
  BY <1>1, <1>2, <1>3 DEF ShellInv, Holds, ToPipe, Dead
<1>8. SinksLast'
  <2>1. \A m \in Children : child'[m] \in Dead <=> child[m] \in Dead
    BY <1>2, <1>3 DEF Dead
  <2> QED
    BY <1>1, <2>1, OfTheLine DEF ShellInv, SinksLast, Feeders, PipeSinks, ToPipe, FromPipe, Quota
<1> QED
  BY <1>4, <1>5, <1>6, <1>7, <1>8 DEF ShellInv

\* All of them have been waited for.
LEMMA WaitedKeepsInv == ASSUME ShellInv, Waited PROVE ShellInv'
<1>1. UNCHANGED <<piped, line, pipe, got, wrote, ends>> /\ shell = "wait" /\ shell' = "prompt"
  BY DEF Waited
<1>2. \A k \in Children : child'[k] = "none"
  BY DEF Waited
<1>3. NothingLost'
  BY <1>1, SameItems DEF ShellInv
<1>4. ShellTypes'
  <2>1. child' \in [Children -> {"none", "forked", "runs"} \cup Dead]
    BY DEF Waited
  <2> QED
    BY <1>1, <1>2, <2>1 DEF ShellInv, ShellTypes, Quota
<1>5. \A k \in Children : ends[k] = {}
  <2> SUFFICES ASSUME NEW k \in Children PROVE ends[k] = {}
    OBVIOUS
  <2>1. child[k] \in {"none"} \cup Dead
    <3>1. CASE k \in 1..Len(line)
      BY <3>1 DEF Waited, Dead
    <3>2. CASE k \notin 1..Len(line)
      <4>1. k \in Nat /\ k > Len(line)
        BY <3>2, OfTheLine, ShellAssumption DEF Children
      <4> QED
        BY <4>1 DEF ShellInv, ShellTypes
    <3> QED
      BY <3>1, <3>2
  <2> QED
    BY <2>1 DEF ShellInv, Holds
<1>6. Births' /\ Holds'
  BY <1>1, <1>2, <1>5 DEF ShellInv, Births, Holds
<1>7. SinksLast'
  <2>1. Feeders' \subseteq Children /\ PipeSinks' \subseteq Children
    BY <1>1, OfTheLine DEF Feeders, PipeSinks, ToPipe, FromPipe
  <2> QED
    BY <1>2, <2>1 DEF SinksLast, Dead
<1> QED
  BY <1>3, <1>4, <1>6, <1>7 DEF ShellInv

\* Whoever is born and not dead belongs to the line, which main has not left.
LEMMA LiveChild ==
  ASSUME ShellInv, NEW k \in Children, child[k] \in {"forked", "runs"}
  PROVE  k \in 1..Len(line) /\ shell \in {"fork", "wait", "crashed"} /\ k # 0
<1>1. k \in Nat /\ k >= 1
  BY ShellAssumption DEF Children
<1>2. ~(k > Len(line))
  BY DEF ShellInv, ShellTypes
<1> QED
  BY <1>1, <1>2, OfTheLine DEF ShellInv, ShellTypes, Births

\* The death of a child: one that has read the pipe to its end must be the last
\* at it, and one that writes to it must have written all if somebody reads.
LEMMA DeathKeepsInv ==
  ASSUME ShellInv, NEW k \in Children, child[k] \in {"forked", "runs"}, Dies(k),
         UNCHANGED <<piped, shell, line, pipe, wrote, got>>,
         shell # "crashed" /\ k \in PipeSinks => \A m \in Feeders : child[m] \in Dead,
         shell # "crashed" /\ k \in Feeders /\ PipeSinks # {} => wrote[k] = Quota(k)
  PROVE  ShellInv'
<1>1. k \in 1..Len(line) /\ shell \in {"fork", "wait", "crashed"} /\ k # 0
  BY LiveChild
<1>2. /\ child'[k] = "zombie" /\ \A m \in Children \ {k} : child'[m] = child[m]
      /\ ends'[k] = {} /\ ends'[0] = ends[0] /\ \A m \in Children \ {k} : ends'[m] = ends[m]
  BY <1>1 DEF ShellInv, ShellTypes, Dies
<1>3. NothingLost'
  BY SameItems DEF ShellInv
<1>4. ShellTypes'
  <2>1. child' \in [Children -> {"none", "forked", "runs"} \cup Dead]
    BY DEF ShellInv, ShellTypes, Dead, Dies
  <2>2. ends' \in [{0} \cup Children -> SUBSET {"r", "w"}]
    BY DEF ShellInv, ShellTypes, Dies
  <2>3. \A m \in Children : m > Len(line) => child'[m] = "none"
    BY <1>2 DEF ShellInv, ShellTypes
  <2> QED
    BY <2>1, <2>2, <2>3 DEF ShellInv, ShellTypes, Quota
<1>5. Births'
  BY <1>1, <1>2, OfTheLine DEF ShellInv, Births, Unborn
<1>6. Holds'
  BY <1>2 DEF ShellInv, Holds, ToPipe, Dead
<1>7. SinksLast'
  <2>1. UNCHANGED <<Feeders, PipeSinks>> /\ \A m \in Feeders : Quota(m)' = Quota(m)
    BY DEF Feeders, PipeSinks, ToPipe, FromPipe, Quota
  <2>2. \A m \in Children : child'[m] \in Dead <=> child[m] \in Dead \/ m = k
    BY <1>2 DEF Dead
  <2>3. ASSUME shell # "crashed", NEW q \in PipeSinks, NEW m \in Feeders, child'[q] \in Dead
        PROVE  child'[m] \in Dead
    BY <2>2, <2>3, OfTheLine DEF ShellInv, SinksLast
  <2>4. ASSUME shell # "crashed", NEW q \in PipeSinks, NEW m \in Feeders, child'[m] \in Dead
        PROVE  wrote[m] = Quota(m)
    BY <2>2, <2>4, OfTheLine DEF ShellInv, SinksLast
  <2> QED
    BY <2>1, <2>3, <2>4 DEF SinksLast
<1> QED
  BY <1>3, <1>4, <1>5, <1>6, <1>7 DEF ShellInv

\* The child keeps the end it uses; without a pipe it may die.
LEMMA ExecKeepsInv == ASSUME ShellInv, NEW k \in Children, Exec(k) PROVE ShellInv'
<1>0. child[k] = "forked" /\ UNCHANGED <<piped, shell, line, pipe, wrote, got>>
  BY DEF Exec
<1>1. CASE ~piped /\ Dies(k)
  <2>1. PipeSinks = {} /\ Feeders = {}
    BY <1>1 DEF PipeSinks, Feeders, FromPipe, ToPipe
  <2> QED
    BY <1>0, <1>1, <2>1, DeathKeepsInv
<1>2. CASE /\ child' = [child EXCEPT ![k] = "runs"]
           /\ ends' = [ends EXCEPT ![k] = @ \cap {IF ToPipe(k) THEN "w" ELSE "r"}]
  <2>1. k \in 1..Len(line) /\ shell \in {"fork", "wait", "crashed"} /\ k # 0
    BY <1>0, LiveChild
  <2>2. /\ child'[k] = "runs" /\ \A m \in Children \ {k} : child'[m] = child[m]
        /\ ends'[k] = ends[k] \cap {IF ToPipe(k) THEN "w" ELSE "r"}
        /\ ends'[0] = ends[0] /\ \A m \in Children \ {k} : ends'[m] = ends[m]
    BY <1>2, <2>1 DEF ShellInv, ShellTypes
  <2>3. NothingLost'
    BY <1>0, SameItems DEF ShellInv
  <2>4. ShellTypes'
    <3>1. child' \in [Children -> {"none", "forked", "runs"} \cup Dead]
      BY <1>2 DEF ShellInv, ShellTypes
    <3>2. ends' \in [{0} \cup Children -> SUBSET {"r", "w"}]
      <4>1. ends[k] \cap {IF ToPipe(k) THEN "w" ELSE "r"} \in SUBSET {"r", "w"}
        OBVIOUS
      <4> QED
        BY <1>2, <4>1 DEF ShellInv, ShellTypes
    <3>3. \A m \in Children : m > Len(line) => child'[m] = "none"
      BY <1>0, <2>2 DEF ShellInv, ShellTypes
    <3> QED
      BY <1>0, <3>1, <3>2, <3>3 DEF ShellInv, ShellTypes, Quota
  <2>5. Births'
    BY <1>0, <2>1, <2>2, OfTheLine DEF ShellInv, Births, Unborn
  <2>6. Holds'
    <3>1. piped => ends'[k] = {IF ToPipe(k) THEN "w" ELSE "r"}
      BY <1>0, <2>2 DEF ShellInv, Holds
    <3>2. ~piped => ends'[k] = {}
      BY <2>2 DEF ShellInv, Holds
    <3>3. \A m \in Children : ToPipe(m)' = ToPipe(m)
      BY <1>0 DEF ToPipe
    <3> QED
      BY <1>0, <2>2, <3>1, <3>2, <3>3 DEF ShellInv, Holds, Dead
  <2>7. SinksLast'
    <3>1. \A m \in Children : child'[m] \in Dead <=> child[m] \in Dead
      BY <1>0, <2>2 DEF Dead
    <3> QED
      BY <1>0, <3>1, OfTheLine DEF ShellInv, SinksLast, Feeders, PipeSinks, ToPipe, FromPipe, Quota
  <2> QED
    BY <2>3, <2>4, <2>5, <2>6, <2>7 DEF ShellInv
<1> QED
  BY <1>1, <1>2 DEF Exec

\* A write: while a command of the line reads the pipe, somebody holds its read
\* end, and no writer is killed.
LEMMA PipeWriteKeepsInv == ASSUME ShellInv, NEW k \in Children, Write(k) PROVE ShellInv'
<1>0. /\ child[k] = "runs" /\ wrote[k] < Quota(k) /\ UNCHANGED <<piped, shell, line, got>>
      /\ k \in 1..Len(line) /\ k # 0 /\ shell \in {"fork", "wait", "crashed"}
  BY LiveChild DEF Write
<1>1. CASE ToPipe(k) /\ Readers = {}
  <2>1. Dies(k) /\ UNCHANGED <<pipe, wrote>>
    BY <1>1 DEF Write
  <2>2. ASSUME shell # "crashed", k \in Feeders, NEW q \in PipeSinks PROVE FALSE
    <3>1. q \in Children /\ q \in 1..Len(line) /\ FromPipe(q) /\ piped /\ ~ToPipe(q)
      BY OfTheLine DEF PipeSinks, FromPipe
    <3>2. "r" \notin ends[0] /\ "r" \notin ends[q]
      BY <1>1, <3>1 DEF Readers, ShellInv, ShellTypes
    <3>3. shell = "wait"
      BY <1>0, <2>2, <3>1, <3>2 DEF ShellInv, Holds
    <3>4. child[q] # "none"
      BY <3>1, <3>3 DEF ShellInv, Births, Unborn
    <3>5. child[q] \in Dead
      BY <3>1, <3>2, <3>4 DEF ShellInv, Holds, ShellTypes
    <3> QED
      BY <1>0, <2>2, <3>5 DEF ShellInv, SinksLast, Dead
  <2>3. k \notin PipeSinks
    BY <1>1 DEF PipeSinks, FromPipe
  <2> QED
    BY <1>0, <2>1, <2>2, <2>3, DeathKeepsInv
<1>2. CASE ~(ToPipe(k) /\ Readers = {})
  <2>1. /\ pipe' = IF ToPipe(k) THEN Append(pipe, k) ELSE pipe
        /\ wrote' = [wrote EXCEPT ![k] = @ + 1] /\ UNCHANGED <<child, ends>>
    BY <1>2 DEF Write
  <2>2. wrote'[k] = wrote[k] + 1 /\ wrote[k] \in Nat /\ \A m \in Children \ {k} : wrote'[m] = wrote[m]
    BY <2>1 DEF ShellInv, ShellTypes
  <2>3. \A m \in 1..Len(line) : Quota(m)' = Quota(m) /\ Quota(m) \in Nat
    BY <1>0, ShellAssumption DEF Quota
  <2>4. ShellTypes'
    <3>1. pipe' \in Seq(Children) /\ wrote' \in [Children -> Nat]
      BY <2>1 DEF ShellInv, ShellTypes
    <3>2. \A m \in 1..Len(line) : wrote'[m] <= Quota(m)'
      BY <1>0, <2>2, <2>3, OfTheLine, SMTT(60) DEF ShellInv, ShellTypes
    <3> QED
      BY <1>0, <2>1, <3>1, <3>2 DEF ShellInv, ShellTypes
  <2>5. Births' /\ Holds'
    BY <1>0, <2>1 DEF ShellInv, Births, Holds, Unborn, ToPipe
  <2>6. NothingLost'
    <3>1. Feeders' = Feeders
      BY <1>0 DEF Feeders, ToPipe
    <3>2. got \o pipe \in Seq(Children) /\ pipe \in Seq(Children) /\ got \in Seq(Children)
      BY DEF ShellInv, ShellTypes
    <3>3. ASSUME NEW m \in Feeders PROVE Cardinality(ItemsOf(m, got' \o pipe')) = wrote'[m]
      <4>1. m \in Children /\ Cardinality(ItemsOf(m, got \o pipe)) = wrote[m]
        BY OfTheLine DEF ShellInv, NothingLost
      <4>2. CASE ToPipe(k)
        <5>1. got' \o pipe' = Append(got \o pipe, k)
          BY <1>0, <2>1, <3>2, <4>2
        <5>2. Cardinality(ItemsOf(m, Append(got \o pipe, k))) = wrote[m] + (IF k = m THEN 1 ELSE 0)
          <6> DEFINE s == got \o pipe
          <6>1. s \in Seq(Children) /\ Cardinality(ItemsOf(m, s)) = wrote[m]
            BY <3>2, <4>1
          <6> HIDE DEF s
          <6>2. Cardinality(ItemsOf(m, Append(s, k))) =
                  Cardinality(ItemsOf(m, s)) + (IF k = m THEN 1 ELSE 0)
            BY <4>1, <6>1, OneItemMore
          <6>3. Cardinality(ItemsOf(m, Append(s, k))) = wrote[m] + (IF k = m THEN 1 ELSE 0)
            BY <6>1, <6>2
          <6> QED
            BY <6>3 DEF s
        <5>3. wrote'[m] = wrote[m] + (IF k = m THEN 1 ELSE 0)
          <6>1. wrote[m] \in Nat
            BY <4>1 DEF ShellInv, ShellTypes
          <6> QED
            BY <2>2, <4>1, <6>1
        <5> QED
          BY <5>1, <5>2, <5>3
      <4>3. CASE ~ToPipe(k)
        <5>1. m # k
          BY <4>3 DEF Feeders
        <5>2. wrote'[m] = wrote[m] /\ got' = got /\ pipe' = pipe
          BY <1>0, <2>1, <2>2, <4>1, <4>3, <5>1
        <5> QED
          BY <4>1, <5>2
      <4> QED
        BY <4>2, <4>3
    <3> QED
      BY <3>1, <3>3 DEF NothingLost, ItemsOf
  <2>7. SinksLast'
    <3>1. UNCHANGED <<Feeders, PipeSinks>>
      BY <1>0 DEF Feeders, PipeSinks, ToPipe, FromPipe
    <3>2. child[k] \notin Dead
      BY <1>0 DEF Dead
    <3>3. \A m \in Feeders : m \in Children /\ m \in 1..Len(line)
      BY OfTheLine DEF Feeders
    <3> QED
      BY <1>0, <2>1, <2>2, <2>3, <3>1, <3>2, <3>3 DEF ShellInv, SinksLast
  <2> QED
    BY <2>4, <2>5, <2>6, <2>7 DEF ShellInv
<1> QED
  BY <1>1, <1>2

\* A read moves an item from the pipe to what was read.
LEMMA ReadKeepsInv == ASSUME ShellInv, NEW k \in Children, Read(k) PROVE ShellInv'
<1>1. /\ UNCHANGED <<piped, shell, line, child, ends, wrote>> /\ pipe # <<>>
      /\ got' = Append(got, Head(pipe)) /\ pipe' = Tail(pipe)
  BY DEF Read
<1>2. /\ pipe \in Seq(Children) /\ got \in Seq(Children)
  BY DEF ShellInv, ShellTypes
<1>3. pipe' \in Seq(Children) /\ got' \in Seq(Children)
  BY <1>1, <1>2
<1>4. got' \o pipe' = got \o pipe
  <2>1. Len(got' \o pipe') = Len(got \o pipe)
    BY <1>1, <1>2
  <2>2. \A i \in 1..Len(got \o pipe) : (got' \o pipe')[i] = (got \o pipe)[i]
    BY <1>1, <1>2
  <2> QED
    BY <1>2, <1>3, <2>1, <2>2, SMTT(30)
<1>5. ShellTypes' /\ Births' /\ Holds' /\ SinksLast'
  BY <1>1, <1>3 DEF ShellInv, ShellTypes, Births, Holds, SinksLast, Feeders, PipeSinks, ToPipe,
                    FromPipe, Quota, Unborn
<1>6. NothingLost'
  BY <1>1, <1>4 DEF ShellInv, NothingLost, ItemsOf, Feeders, ToPipe
<1> QED
  BY <1>5, <1>6 DEF ShellInv

\* A command that meets the end of the pipe is the last that holds it.
LEMMA FinishKeepsInv == ASSUME ShellInv, NEW k \in Children, Finish(k) PROVE ShellInv'
<1>0. /\ child[k] = "runs" /\ wrote[k] = Quota(k) /\ Dies(k)
      /\ UNCHANGED <<piped, shell, line, pipe, wrote, got>>
      /\ k \in 1..Len(line) /\ shell \in {"fork", "wait", "crashed"}
  BY LiveChild DEF Finish
<1>1. ASSUME shell # "crashed", k \in PipeSinks, NEW m \in Feeders PROVE child[m] \in Dead
  <2>1. Writers = {} /\ piped
    BY <1>1 DEF Finish, PipeSinks, FromPipe
  <2>2. m \in Children /\ m \in 1..Len(line) /\ ToPipe(m)
    BY OfTheLine DEF Feeders
  <2>3. "w" \notin ends[0] /\ "w" \notin ends[m]
    BY <2>1, <2>2 DEF Writers, ShellInv, ShellTypes
  <2>4. shell = "wait"
    BY <1>0, <1>1, <2>1, <2>3 DEF ShellInv, Holds
  <2>5. child[m] # "none"
    BY <2>2, <2>4 DEF ShellInv, Births, Unborn
  <2> QED
    BY <2>1, <2>2, <2>3, <2>5 DEF ShellInv, Holds, ShellTypes
<1> QED
  BY <1>0, <1>1, DeathKeepsInv

\* One pipe for the whole line (main.c:49) loses and repeats nothing, a command
\* that saw the end of the pipe saw the end of all that write to it and these
\* have written all, and at the prompt no end of the pipe is held, for lines of
\* as many commands as command_path[] has places (main.c:24; longer ones leave
\* what the code defines), any number of items and a pipe of any size.
THEOREM PipelinesAreRight == ShellSpec => []PipelineRight
<1>1. ShellInv /\ [ShellNext]_shellVars => ShellInv'
  <2> SUFFICES ASSUME ShellInv, [ShellNext]_shellVars PROVE ShellInv'
    OBVIOUS
  <2>1. CASE UNCHANGED shellVars
    <3>1. UNCHANGED <<piped, shell, line, child, ends, pipe, wrote, got>>
      BY <2>1 DEF shellVars
    <3>2. NothingLost'
      BY <3>1, SameItems DEF ShellInv
    <3>3. ShellTypes' /\ Births' /\ Holds'
      BY <3>1 DEF ShellInv, ShellTypes, Births, Holds, ToPipe, Quota, Unborn
    <3>4. SinksLast'
      BY <3>1 DEF ShellInv, SinksLast, Feeders, PipeSinks, ToPipe, FromPipe, Quota
    <3> QED
      BY <3>2, <3>3, <3>4 DEF ShellInv
  <2>2. ASSUME NEW l \in Lines, ReadLine(l) PROVE ShellInv'
    <3>1. PICK n \in 0..(IF piped THEN MaxCommands ELSE 1) : l \in [1..n -> Programs]
      BY DEF Lines
    <3>2. n \in Nat /\ n <= MaxCommands
      BY <3>1, ShellAssumption
    <3>3. l \in Seq(Programs) /\ Len(l) = n
      BY <3>1, <3>2
    <3> QED
      BY <2>2, <3>2, <3>3, ReadLineKeepsInv
  <2>3. CASE ReadEnd
    <3>1. line # <<>> /\ ReadLine(<<line[1]>>) /\ line \in Seq(Programs)
      BY <2>3 DEF ReadEnd, ShellInv, ShellTypes
    <3>2. line[1] \in Programs
      BY <3>1
    <3>3. <<line[1]>> \in Seq(Programs) /\ Len(<<line[1]>>) = 1 /\ 1 <= MaxCommands
      BY <3>2, ShellAssumption
    <3> QED
      BY <3>1, <3>3, ReadLineKeepsInv
  <2> QED
    BY <2>1, <2>2, <2>3, LeaveKeepsInv, ForkKeepsInv, ClosePipeKeepsInv, WaitKeepsInv,
       WaitedKeepsInv, ExecKeepsInv, PipeWriteKeepsInv, ReadKeepsInv, FinishKeepsInv
    DEF ShellNext, MainNext, ChildNext
<1> QED
  BY <1>1, ShellInitInv, ShellInvRight, PTL DEF ShellSpec
-----------------------------------------------------------------------------
(* dirn() and basen() *)

\* The rank of a number in a finite set of numbers counts elements of the set.
LEMMA RankType ==
  ASSUME NEW S, \A x \in S : x \in Nat, IsFiniteSet(S), NEW i \in Nat
  PROVE  /\ IsFiniteSet({j \in S : j <= i})
         /\ Rank(S, i) \in Nat
         /\ Rank(S, i) <= Cardinality(S)
         /\ Cardinality(S) \in Nat
<1> DEFINE B == {j \in S : j <= i}
<1>1. B \in SUBSET S
  OBVIOUS
<1>2. IsFiniteSet(B) /\ Cardinality(B) <= Cardinality(S)
  BY <1>1, FS_Subset
<1> QED
  BY <1>2, FS_CardinalityType DEF Rank

\* An element of the set has a higher rank than all numbers below it.
LEMMA RankGrows ==
  ASSUME NEW S, \A x \in S : x \in Nat, IsFiniteSet(S), NEW i \in Nat, NEW j \in S, i < j
  PROVE  Rank(S, i) < Rank(S, j)
<1> DEFINE A == {k \in S : k <= i}
           B == {k \in S : k <= j}
<1>1. A \in SUBSET B /\ j \in B /\ j \notin A
  OBVIOUS
<1>2. IsFiniteSet(B) /\ Cardinality(B) \in Nat /\ Cardinality(A) \in Nat
  BY RankType DEF Rank
<1>3. Cardinality(A) <= Cardinality(B) /\ (Cardinality(B) = Cardinality(A) => B = A)
  BY <1>1, <1>2, FS_Subset
<1> QED
  BY <1>1, <1>2, <1>3 DEF Rank

\* The ranks of the elements begin with 1 and end with their number.
LEMMA RankPositive ==
  ASSUME NEW S, \A x \in S : x \in Nat, IsFiniteSet(S), NEW i \in S
  PROVE  Rank(S, i) \in 1..Cardinality(S)
<1>1. {j \in S : j <= i} # {}
  OBVIOUS
<1>2. Rank(S, i) # 0
  BY <1>1, RankType, FS_EmptySet DEF Rank
<1>3. Rank(S, i) \in Nat /\ Rank(S, i) <= Cardinality(S) /\ Cardinality(S) \in Nat
  BY RankType
<1> QED
  BY <1>2, <1>3

\* Over a run of elements the rank grows by one with each of them.
LEMMA RankRun ==
  ASSUME NEW S, \A x \in S : x \in Nat, IsFiniteSet(S), NEW i \in Nat, NEW j \in Nat, i <= j,
         (i + 1)..j \subseteq S
  PROVE  Rank(S, j) = Rank(S, i) + (j - i)
<1> DEFINE A == {k \in S : k <= i}
           B == {k \in S : k <= j}
           I == (i + 1)..j
<1>1. B = A \cup I /\ A \cap I = {}
  OBVIOUS
<1>2. IsFiniteSet(A) /\ Cardinality(A) \in Nat
  BY RankType DEF Rank
<1>3. IsFiniteSet(I) /\ Cardinality(I) = j - i
  <2>1. i + 1 \in Int /\ j \in Int
    OBVIOUS
  <2>2. IsFiniteSet(I) /\ Cardinality(I) = IF i + 1 > j THEN 0 ELSE j - (i + 1) + 1
    BY <2>1, FS_Interval
  <2>3. j - i = IF i + 1 > j THEN 0 ELSE j - (i + 1) + 1
    OBVIOUS
  <2> QED
    BY <2>2, <2>3
<1>4. Cardinality(A \cup I) = Cardinality(A) + Cardinality(I) - Cardinality(A \cap I)
  BY <1>2, <1>3, FS_Union
<1>5. Cardinality(A \cap I) = 0
  BY <1>1, FS_EmptySet
<1> HIDE DEF A, B, I
<1>6. Cardinality(B) = Cardinality(A) + Cardinality(I) - 0
  BY <1>1, <1>4, <1>5
<1>7. Cardinality(B) = Cardinality(A) + (j - i)
  BY <1>2, <1>3, <1>6
<1> QED
  BY <1>7 DEF Rank, A, B

\* Nth() and Rank() are inverse to one another: each rank is the rank of one element.
LEMMA NthIs ==
  ASSUME NEW S, \A x \in S : x \in Nat, IsFiniteSet(S)
  PROVE  /\ \A k \in 1..Cardinality(S) : Nth(S, k) \in S /\ Rank(S, Nth(S, k)) = k
         /\ \A i \in S : Nth(S, Rank(S, i)) = i
<1> DEFINE f == [i \in S |-> Rank(S, i)]
           n == Cardinality(S)
<1>0. n \in Nat
  BY FS_CardinalityType
<1>1. f \in [S -> 1..n]
  BY RankPositive
<1>2. ASSUME NEW i \in S, NEW j \in S, Rank(S, i) = Rank(S, j) PROVE i = j
  <2>1. i \in Nat /\ j \in Nat /\ Rank(S, i) \in Nat /\ Rank(S, j) \in Nat
    BY RankType
  <2>2. i < j => Rank(S, i) < Rank(S, j)
    BY <2>1, RankGrows
  <2>3. j < i => Rank(S, j) < Rank(S, i)
    BY <2>1, RankGrows
  <2> QED
    BY <1>2, <2>1, <2>2, <2>3
<1>3. f \in Injection(S, 1..n)
  BY <1>1, <1>2 DEF Injection, IsInjective
<1>4. IsFiniteSet(1..n) /\ Cardinality(1..n) = n
  BY <1>0, FS_Interval
<1>5. f \in Surjection(S, 1..n)
  BY <1>3, <1>4, FS_Injection
<1>6. \A k \in 1..n : \E i \in S : Rank(S, i) = k
  BY <1>5 DEF Surjection
<1> QED
  BY <1>2, <1>6, RankPositive DEF Nth

\* A finite set of numbers has a greatest element,
LEMMA GreatestOf ==
  ASSUME NEW S, \A x \in S : x \in Nat, IsFiniteSet(S), S # {}
  PROVE  \E m \in S : \A j \in S : j <= m
<1> DEFINE n == Cardinality(S)
<1>1. n \in Nat \ {0}
  BY FS_CardinalityType, FS_EmptySet
<1>2. Nth(S, n) \in S /\ Rank(S, Nth(S, n)) = n
  BY <1>1, NthIs
<1>3. ASSUME NEW j \in S PROVE j <= Nth(S, n)
  <2>1. j \in Nat /\ Nth(S, n) \in Nat /\ Rank(S, j) \in Nat /\ Rank(S, j) <= n
    BY <1>2, RankType
  <2>2. Nth(S, n) < j => Rank(S, Nth(S, n)) < Rank(S, j)
    BY <2>1, RankGrows
  <2> QED
    BY <1>1, <1>2, <2>1, <2>2
<1> QED
  BY <1>2, <1>3

\* and a least one.
LEMMA LeastOf ==
  ASSUME NEW S, \A x \in S : x \in Nat, IsFiniteSet(S), S # {}
  PROVE  \E m \in S : \A j \in S : m <= j
<1> DEFINE n == Cardinality(S)
<1>1. n \in Nat \ {0}
  BY FS_CardinalityType, FS_EmptySet
<1>2. Nth(S, 1) \in S /\ Rank(S, Nth(S, 1)) = 1
  BY <1>1, NthIs
<1>3. ASSUME NEW j \in S PROVE Nth(S, 1) <= j
  <2>1. Rank(S, j) \in 1..n
    BY RankPositive
  <2>2. j < Nth(S, 1) => Rank(S, j) < 1
    BY <1>2, RankGrows
  <2> QED
    BY <1>1, <1>2, <2>1, <2>2
<1> QED
  BY <1>2, <1>3

\* A map that keeps the order takes the k-th element to the k-th element.
LEMMA NthMoves ==
  ASSUME NEW S, \A x \in S : x \in Nat, IsFiniteSet(S), NEW T, \A x \in T : x \in Nat, IsFiniteSet(T),
         NEW f \in [T -> S],
         \A i \in T, j \in T : i < j => f[i] < f[j],
         \A k \in S : \E i \in T : f[i] = k
  PROVE  /\ Cardinality(S) = Cardinality(T)
         /\ \A k \in 1..Cardinality(T) : Nth(S, k) = f[Nth(T, k)]
<1>1. \A i \in T, j \in T : f[i] = f[j] => i = j
  OBVIOUS
<1>2. f \in Bijection(T, S)
  BY <1>1 DEF Bijection, Injection, IsInjective, Surjection
<1>3. Cardinality(S) = Cardinality(T)
  BY <1>2, FS_Bijection DEF ExistsBijection
<1>4. ASSUME NEW i \in T PROVE Rank(S, f[i]) = Rank(T, i)
  <2> DEFINE A == {j \in T : j <= i}
             B == {j \in S : j <= f[i]}
             g == [j \in A |-> f[j]]
  <2>1. g \in [A -> B]
    OBVIOUS
  <2>2. \A j \in A, k \in A : g[j] = g[k] => j = k
    BY <1>1
  <2>3. ASSUME NEW k \in B PROVE \E j \in A : g[j] = k
    <3>1. PICK j \in T : f[j] = k
      OBVIOUS
    <3>2. ~(i < j)
      BY <3>1
    <3> QED
      BY <3>1, <3>2
  <2>4. g \in Bijection(A, B)
    BY <2>1, <2>2, <2>3 DEF Bijection, Injection, IsInjective, Surjection
  <2>5. IsFiniteSet(A)
    BY RankType
  <2>6. ExistsBijection(A, B)
    BY <2>4 DEF ExistsBijection
  <2> QED
    BY <2>5, <2>6, FS_Bijection DEF Rank
<1>5. ASSUME NEW k \in 1..Cardinality(T) PROVE Nth(S, k) = f[Nth(T, k)]
  <2>1. Nth(T, k) \in T /\ Rank(T, Nth(T, k)) = k
    BY NthIs
  <2>2. f[Nth(T, k)] \in S /\ Rank(S, f[Nth(T, k)]) = k
    BY <2>1, <1>4
  <2>3. Nth(S, Rank(S, f[Nth(T, k)])) = f[Nth(T, k)]
    BY <2>2, NthIs
  <2> QED
    BY <2>2, <2>3
<1> QED
  BY <1>3, <1>5

\* Sets of places in a string are finite sets of numbers.
LEMMA PlacesFinite ==
  ASSUME NEW n \in Nat, NEW S, S \subseteq 1..n
  PROVE  IsFiniteSet(S) /\ \A x \in S : x \in Nat
<1>1. IsFiniteSet(1..n)
  BY FS_Interval
<1>2. IsFiniteSet(S)
  BY <1>1, FS_Subset
<1>3. \A x \in S : x \in Nat
  OBVIOUS
<1> QED
  BY <1>2, <1>3

\* e is the end of the component of s that begins at i.
Ends(s, i, e) ==
  /\ e \in i..Len(s)
  /\ \A j \in i..e : s[j] # "/"
  /\ e < Len(s) => s[e + 1] = "/"

\* Every component has an end,
LEMMA EndOfIs ==
  ASSUME NEW s \in Seq(PathChars), NEW i \in 1..Len(s), s[i] # "/"
  PROVE  Ends(s, i, EndOf(s, i))
<1> DEFINE R == {e \in 1..Len(s) : i <= e /\ \A j \in i..e : s[j] # "/"}
<1>1. R \subseteq 1..Len(s) /\ i \in R
  OBVIOUS
<1>2. Len(s) \in Nat
  OBVIOUS
<1>3. IsFiniteSet(R) /\ \A x \in R : x \in Nat
  BY <1>1, <1>2, PlacesFinite
<1>4. PICK m \in R : \A j \in R : j <= m
  BY <1>1, <1>3, GreatestOf
<1>5. ASSUME m < Len(s), s[m + 1] # "/" PROVE FALSE
  <2>1. m + 1 \in 1..Len(s) /\ i <= m + 1
    BY <1>2, <1>5
  <2>2. \A j \in i..(m + 1) : s[j] # "/"
    BY <1>5
  <2>3. m + 1 \in R
    BY <2>1, <2>2
  <2>4. m + 1 <= m
    BY <1>4, <2>3
  <2> QED
    BY <2>4
<1>6. m \in i..Len(s) /\ (\A j \in i..m : s[j] # "/") /\ (m < Len(s) => s[m + 1] = "/")
  BY <1>5
<1> QED
  BY <1>6 DEF EndOf, Ends

\* and only one.
LEMMA EndOfOnly ==
  ASSUME NEW s \in Seq(PathChars), NEW i \in 1..Len(s), NEW e, Ends(s, i, e)
  PROVE  EndOf(s, i) = e
<1>1. e \in i..Len(s) /\ s[i] # "/"
  BY DEF Ends
<1> DEFINE f == EndOf(s, i)
<1>2. Ends(s, i, f)
  BY <1>1, EndOfIs
<1> HIDE DEF f
<1>3. f \in i..Len(s)
  BY <1>2 DEF Ends
<1>4. ~(f < e)
  <2> SUFFICES ASSUME f < e PROVE FALSE
    OBVIOUS
  <2>1. f < Len(s) /\ f + 1 \in i..e
    BY <1>1, <1>3
  <2> QED
    BY <1>2, <2>1 DEF Ends
<1>5. ~(e < f)
  <2> SUFFICES ASSUME e < f PROVE FALSE
    OBVIOUS
  <2>1. e < Len(s) /\ e + 1 \in i..f
    BY <1>1, <1>3
  <2> QED
    BY <1>2, <2>1 DEF Ends
<1>6. f = e
  BY <1>1, <1>3, <1>4, <1>5
<1> QED
  BY <1>6 DEF f

\* The component of s that begins at i.
Name(s, i) == SubSeq(s, i, EndOf(s, i))

\* What is cut off behind a component does not change the components before.
LEMMA CutStarts ==
  ASSUME NEW s \in Seq(PathChars), NEW n \in 0..Len(s), n < Len(s) => s[n + 1] = "/",
         NEW t, t = SubSeq(s, 1, n)
  PROVE  /\ t \in Seq(PathChars) /\ Len(t) = n
         /\ \A i \in 1..n : t[i] = s[i]
         /\ Starts(t) = {i \in Starts(s) : i <= n}
         /\ \A i \in Starts(t) : Name(t, i) = Name(s, i)
<1>1. /\ t \in Seq(PathChars) /\ Len(t) = n
      /\ \A i \in 1..n : t[i] = s[i]
      /\ n \in Nat /\ Len(s) \in Nat /\ n <= Len(s)
      /\ DOMAIN s = 1..Len(s) /\ DOMAIN t = 1..n
  OBVIOUS
<1>2. Starts(t) = {i \in Starts(s) : i <= n}
  <2>1. ASSUME NEW i \in 1..n PROVE i \in Starts(t) <=> i \in Starts(s)
    <3>1. t[i] = s[i] /\ (i > 1 => t[i - 1] = s[i - 1])
      BY <1>1
    <3> QED
      BY <1>1, <3>1 DEF Starts
  <2>2. Starts(t) \subseteq 1..n /\ Starts(s) \subseteq 1..Len(s)
    BY <1>1 DEF Starts
  <2> QED
    BY <1>1, <2>1, <2>2
<1>3. ASSUME NEW i \in Starts(t) PROVE Name(t, i) = Name(s, i)
  <2> DEFINE e == EndOf(t, i)
  <2>1. i \in 1..n /\ t[i] # "/" /\ i \in 1..Len(s)
    BY <1>1 DEF Starts
  <2>2. Ends(t, i, e)
    BY <1>1, <2>1, EndOfIs
  <2> HIDE DEF e
  <2>3. e \in i..n
    BY <1>1, <2>2 DEF Ends
  <2>4. \A j \in i..e : s[j] # "/"
    BY <1>1, <2>1, <2>2, <2>3 DEF Ends
  <2>5. e < Len(s) => s[e + 1] = "/"
    <3>1. CASE e = n
      BY <3>1
    <3>2. CASE e < n
      <4>1. e + 1 \in 1..n /\ e < Len(t)
        BY <1>1, <2>1, <2>3, <3>2
      <4> QED
        BY <1>1, <2>2, <4>1 DEF Ends
    <3> QED
      BY <1>1, <2>3, <3>1, <3>2
  <2>6. Ends(s, i, e)
    BY <1>1, <2>1, <2>3, <2>4, <2>5 DEF Ends
  <2>7. EndOf(s, i) = e
    BY <2>1, <2>6, EndOfOnly
  <2>8. SubSeq(t, i, e) = SubSeq(s, i, e)
    BY <1>1, <2>1, <2>3
  <2> QED
    BY <2>7, <2>8 DEF e, Name
<1> QED
  BY <1>1, <1>2, <1>3

\* The beginnings of components are finitely many places.
LEMMA StartsFinite ==
  ASSUME NEW s \in Seq(PathChars)
  PROVE  /\ Starts(s) \subseteq 1..Len(s)
         /\ IsFiniteSet(Starts(s))
         /\ \A x \in Starts(s) : x \in Nat
         /\ Cardinality(Starts(s)) \in Nat
<1>1. Starts(s) \subseteq 1..Len(s) /\ Len(s) \in Nat
  BY DEF Starts
<1>2. IsFiniteSet(Starts(s)) /\ \A x \in Starts(s) : x \in Nat
  BY <1>1, PlacesFinite
<1> QED
  BY <1>1, <1>2, FS_CardinalityType

\* Components() is a list of strings, one for each beginning, in order.
LEMMA ComponentsAre ==
  ASSUME NEW s \in Seq(PathChars)
  PROVE  /\ Components(s) \in Seq(Seq(PathChars))
         /\ Len(Components(s)) = Cardinality(Starts(s))
         /\ \A k \in 1..Cardinality(Starts(s)) :
              Components(s)[k] = Name(s, Nth(Starts(s), k))
<1> DEFINE n == Cardinality(Starts(s))
           c == [k \in 1..n |-> Name(s, Nth(Starts(s), k))]
<1>1. n \in Nat
  BY StartsFinite
<1>2. Components(s) = c
  BY DEF Components, Name
<1>3. ASSUME NEW k \in 1..n PROVE Name(s, Nth(Starts(s), k)) \in Seq(PathChars)
  <2> DEFINE i == Nth(Starts(s), k)
  <2>1. i \in Starts(s)
    BY StartsFinite, NthIs
  <2>2. i \in 1..Len(s) /\ s[i] # "/"
    BY <2>1 DEF Starts
  <2> HIDE DEF i
  <2>3. EndOf(s, i) \in i..Len(s)
    BY <2>2, EndOfIs DEF Ends
  <2>4. SubSeq(s, i, EndOf(s, i)) \in Seq(PathChars)
    BY <2>2, <2>3
  <2> QED
    BY <2>4 DEF i, Name
<1> HIDE DEF n
<1>4. c \in Seq(Seq(PathChars)) /\ Len(c) = n
  BY <1>1, <1>3
<1> QED
  BY <1>2, <1>4 DEF n

\* The components before a slash are the first ones of the whole.
LEMMA CutComponents ==
  ASSUME NEW s \in Seq(PathChars), NEW n \in 0..Len(s), n < Len(s) => s[n + 1] = "/",
         NEW t, t = SubSeq(s, 1, n), NEW m, m = Cardinality(Starts(t))
  PROVE  Components(t) = SubSeq(Components(s), 1, m) /\ m \in 0..Cardinality(Starts(s))
<1>1. /\ t \in Seq(PathChars)
      /\ Starts(t) = {i \in Starts(s) : i <= n}
      /\ \A i \in Starts(t) : Name(t, i) = Name(s, i)
  BY CutStarts
<1>2. /\ IsFiniteSet(Starts(s)) /\ \A x \in Starts(s) : x \in Nat
      /\ IsFiniteSet(Starts(t)) /\ \A x \in Starts(t) : x \in Nat
      /\ Cardinality(Starts(s)) \in Nat /\ m \in Nat
  BY <1>1, StartsFinite
<1>3. m <= Cardinality(Starts(s))
  BY <1>1, <1>2, FS_Subset
<1>4. ASSUME NEW k \in 1..m PROVE Nth(Starts(t), k) = Nth(Starts(s), k)
  <2> DEFINE i == Nth(Starts(t), k)
  <2>1. i \in Starts(t) /\ Rank(Starts(t), i) = k
    BY <1>2, NthIs
  <2>2. i \in Starts(s) /\ i <= n /\ i \in Nat /\ n \in Nat
    BY <1>1, <1>2, <2>1
  <2>3. {j \in Starts(t) : j <= i} = {j \in Starts(s) : j <= i}
    BY <1>1, <1>2, <2>2
  <2>4. Rank(Starts(s), i) = k
    BY <2>1, <2>3 DEF Rank
  <2>5. Nth(Starts(s), Rank(Starts(s), i)) = i
    BY <1>2, <2>2, NthIs
  <2> QED
    BY <2>4, <2>5
<1>5. \A k \in 1..m : Nth(Starts(t), k) \in Starts(t)
  BY <1>2, NthIs
<1>6. /\ Components(t) \in Seq(Seq(PathChars)) /\ Len(Components(t)) = m
      /\ \A k \in 1..m : Components(t)[k] = Name(t, Nth(Starts(t), k))
  BY <1>1, ComponentsAre
<1>7. /\ Components(s) \in Seq(Seq(PathChars))
      /\ Len(Components(s)) = Cardinality(Starts(s))
      /\ \A k \in 1..Cardinality(Starts(s)) :
           Components(s)[k] = Name(s, Nth(Starts(s), k))
  BY ComponentsAre
<1>8. \A k \in 1..m : Components(t)[k] = Components(s)[k]
  BY <1>1, <1>2, <1>3, <1>4, <1>5, <1>6, <1>7
<1>9. Components(t) = SubSeq(Components(s), 1, m)
  BY <1>2, <1>3, <1>6, <1>7, <1>8
<1> QED
  BY <1>2, <1>3, <1>9

\* The squeezed string holds the kept characters, each at its rank.
LEMMA SqueezedAt ==
  ASSUME NEW s \in Seq(PathChars), NEW K, K = Kept(s), NEW q, q = Squeezed(s)
  PROVE  /\ K \subseteq 1..Len(s)
         /\ IsFiniteSet(K) /\ \A x \in K : x \in Nat
         /\ q \in Seq(PathChars) /\ Len(q) = Cardinality(K)
         /\ \A i \in K : Rank(K, i) \in 1..Len(q) /\ q[Rank(K, i)] = s[i]
         /\ \A k \in 1..Len(q) : \E i \in K : Rank(K, i) = k
<1>1. K \subseteq 1..Len(s) /\ Len(s) \in Nat
  BY DEF Kept
<1>2. IsFiniteSet(K) /\ \A x \in K : x \in Nat
  BY <1>1, PlacesFinite
<1>3. Cardinality(K) \in Nat
  BY <1>2, FS_CardinalityType
<1>4. /\ \A k \in 1..Cardinality(K) : Nth(K, k) \in K /\ Rank(K, Nth(K, k)) = k
      /\ \A i \in K : Nth(K, Rank(K, i)) = i
  BY <1>2, NthIs
<1>5. \A i \in K : Rank(K, i) \in 1..Cardinality(K)
  BY <1>2, RankPositive
<1>6. \A i \in K : s[i] \in PathChars
  BY <1>1
<1>7. q = [k \in 1..Cardinality(K) |-> s[Nth(K, k)]]
  BY DEF Squeezed
<1>8. q \in Seq(PathChars) /\ Len(q) = Cardinality(K)
  BY <1>3, <1>4, <1>6, <1>7
<1>9. \A i \in K : q[Rank(K, i)] = s[i]
  BY <1>4, <1>5, <1>7
<1> QED
  BY <1>1, <1>2, <1>4, <1>5, <1>8, <1>9

\* Where s has no slash, and behind such a place, nothing is skipped.
LEMMA KeptAre ==
  ASSUME NEW s \in Seq(PathChars), NEW i \in 1..Len(s)
  PROVE  /\ s[i] # "/" => i \in Kept(s)
         /\ i = 1 => i \in Kept(s)
         /\ i > 1 /\ s[i - 1] # "/" => i \in Kept(s)
         /\ i > 1 /\ s[i] = "/" /\ s[i - 1] = "/" => i \notin Kept(s)
BY DEF Kept

\* A place and the place before it, if this one has no slash, stay neighbours.
LEMMA SqueezedStep ==
  ASSUME NEW s \in Seq(PathChars), NEW K, K = Kept(s), NEW i \in 1..Len(s), i > 1,
         s[i - 1] # "/"
  PROVE  /\ i \in K /\ i - 1 \in K
         /\ Rank(K, i) = Rank(K, i - 1) + 1
<1>1. i \in K /\ i - 1 \in K /\ i \in Nat /\ i - 1 \in Nat
  BY DEF Kept
<1>2. IsFiniteSet(K) /\ \A x \in K : x \in Nat
  BY SqueezedAt
<1>3. ((i - 1) + 1)..i \subseteq K /\ i - 1 <= i
  BY <1>1
<1>4. Rank(K, i) = Rank(K, i - 1) + (i - (i - 1))
  BY <1>1, <1>2, <1>3, RankRun
<1> QED
  BY <1>1, <1>4

\* Of two kept places the later one has the higher rank, and no other has the same.
LEMMA KeptInOrder ==
  ASSUME NEW s \in Seq(PathChars), NEW K, K = Kept(s), NEW i \in K, NEW j \in K
  PROVE  /\ i \in 1..Len(s) /\ j \in 1..Len(s)
         /\ Rank(K, i) \in Nat \ {0} /\ Rank(K, j) \in Nat \ {0}
         /\ i < j <=> Rank(K, i) < Rank(K, j)
         /\ i = j <=> Rank(K, i) = Rank(K, j)
<1>1. K \subseteq 1..Len(s) /\ IsFiniteSet(K) /\ \A x \in K : x \in Nat
  BY SqueezedAt
<1>2. /\ i \in 1..Len(s) /\ j \in 1..Len(s) /\ i \in Nat /\ j \in Nat
      /\ Cardinality(K) \in Nat
  BY <1>1, FS_CardinalityType
<1>3. Rank(K, i) \in 1..Cardinality(K) /\ Rank(K, j) \in 1..Cardinality(K)
  BY <1>1, RankPositive
<1>4. i < j => Rank(K, i) < Rank(K, j)
  BY <1>1, <1>2, RankGrows
<1>5. j < i => Rank(K, j) < Rank(K, i)
  BY <1>1, <1>2, RankGrows
<1> QED
  BY <1>2, <1>3, <1>4, <1>5

\* A part of a string, character by character.
LEMMA PartOfString ==
  ASSUME NEW s \in Seq(PathChars), NEW i \in 1..Len(s), NEW j \in i..Len(s)
  PROVE  /\ SubSeq(s, i, j) \in Seq(PathChars)
         /\ Len(SubSeq(s, i, j)) = j - i + 1
         /\ \A n \in 1..Len(SubSeq(s, i, j)) : SubSeq(s, i, j)[n] = s[i + n - 1]
OBVIOUS

\* Components begin at the same characters before and after the loop into buf,
LEMMA SqueezedStarts ==
  ASSUME NEW s \in Seq(PathChars), NEW K, K = Kept(s), NEW q, q = Squeezed(s)
  PROVE  /\ \A i \in Starts(s) : i \in K /\ Rank(K, i) \in Starts(q)
         /\ \A k \in Starts(q) : \E i \in Starts(s) : Rank(K, i) = k
<1>1. /\ K \subseteq 1..Len(s) /\ Len(s) \in Nat
      /\ q \in Seq(PathChars) /\ DOMAIN q = 1..Len(q) /\ Len(q) \in Nat
      /\ \A i \in K : Rank(K, i) \in 1..Len(q) /\ q[Rank(K, i)] = s[i]
      /\ \A k \in 1..Len(q) : \E i \in K : Rank(K, i) = k
  BY SqueezedAt
<1>2. ASSUME NEW i \in Starts(s) PROVE i \in K /\ Rank(K, i) \in Starts(q)
  <2> DEFINE k == Rank(K, i)
  <2>1. i \in 1..Len(s) /\ s[i] # "/" /\ (i > 1 => s[i - 1] = "/")
    BY DEF Starts
  <2>2. i \in K
    BY <2>1, KeptAre
  <2>3. k \in 1..Len(q) /\ q[k] = s[i]
    BY <1>1, <2>2
  <2>4. ASSUME k > 1, q[k - 1] # "/" PROVE FALSE
    <3>1. PICK c \in K : Rank(K, c) = k - 1
      BY <1>1, <2>3, <2>4
    <3>2. q[k - 1] = s[c]
      BY <1>1, <3>1
    <3>3. c \in 1..Len(s) /\ c < i
      BY <1>1, <2>2, <2>3, <3>1, KeptInOrder
    <3>4. c + 1 \in 1..Len(s) /\ c + 1 > 1 /\ (c + 1) - 1 = c
      BY <1>1, <2>1, <3>3
    <3>5. c + 1 \in K /\ Rank(K, c + 1) = Rank(K, c) + 1
      BY <2>4, <3>2, <3>4, SqueezedStep
    <3>6. Rank(K, c + 1) = k
      BY <2>3, <3>1, <3>5
    <3>7. c + 1 = i
      BY <2>2, <3>5, <3>6, KeptInOrder
    <3>8. s[i - 1] = s[c] /\ i > 1
      BY <3>3, <3>7
    <3> QED
      BY <2>1, <2>4, <3>2, <3>8
  <2>5. k \in Starts(q)
    BY <1>1, <2>1, <2>3, <2>4 DEF Starts
  <2> QED
    BY <2>2, <2>5
<1>3. ASSUME NEW k \in Starts(q) PROVE \E i \in Starts(s) : Rank(K, i) = k
  <2>1. k \in 1..Len(q) /\ q[k] # "/" /\ (k > 1 => q[k - 1] = "/")
    BY <1>1 DEF Starts
  <2>2. PICK i \in K : Rank(K, i) = k
    BY <1>1, <2>1
  <2>3. s[i] # "/" /\ i \in 1..Len(s)
    BY <1>1, <2>1, <2>2
  <2>4. ASSUME i > 1, s[i - 1] # "/" PROVE FALSE
    <3>1. i - 1 \in K /\ Rank(K, i) = Rank(K, i - 1) + 1
      BY <2>3, <2>4, SqueezedStep
    <3>2. Rank(K, i - 1) \in 1..Len(q) /\ q[Rank(K, i - 1)] = s[i - 1]
      BY <1>1, <3>1
    <3>3. Rank(K, i - 1) = k - 1 /\ k > 1
      BY <2>2, <3>1, <3>2
    <3> QED
      BY <2>1, <2>4, <3>2, <3>3
  <2>5. i \in Starts(s)
    BY <2>3, <2>4 DEF Starts
  <2> QED
    BY <2>2, <2>5
<1> QED
  BY <1>2, <1>3

\* and go on with the same characters to the same end.
LEMMA SqueezedNames ==
  ASSUME NEW s \in Seq(PathChars), NEW K, K = Kept(s), NEW q, q = Squeezed(s),
         NEW i \in Starts(s)
  PROVE  Name(q, Rank(K, i)) = Name(s, i)
<1>1. /\ K \subseteq 1..Len(s) /\ Len(s) \in Nat
      /\ IsFiniteSet(K) /\ \A x \in K : x \in Nat
      /\ q \in Seq(PathChars) /\ DOMAIN q = 1..Len(q) /\ Len(q) \in Nat
      /\ \A j \in K : Rank(K, j) \in 1..Len(q) /\ q[Rank(K, j)] = s[j]
      /\ \A k \in 1..Len(q) : \E j \in K : Rank(K, j) = k
  BY SqueezedAt
<1> DEFINE k == Rank(K, i)
           e == EndOf(s, i)
           f == k + (e - i)
<1>2. i \in 1..Len(s) /\ s[i] # "/"
  BY DEF Starts
<1>3. Ends(s, i, e)
  BY <1>2, EndOfIs
<1> HIDE DEF e
<1>4. /\ e \in i..Len(s) /\ e \in 1..Len(s)
      /\ \A j \in i..e : s[j] # "/" /\ j \in 1..Len(s)
  BY <1>2, <1>3 DEF Ends
<1>5. \A j \in i..e : j \in K
  BY <1>4, KeptAre
<1>6. k \in 1..Len(q)
  BY <1>1, <1>2, <1>4, <1>5
<1>7. ASSUME NEW j \in i..e
      PROVE  Rank(K, j) = k + (j - i) /\ k + (j - i) \in 1..Len(q) /\ q[k + (j - i)] = s[j]
  <2>1. i \in Nat /\ j \in Nat /\ i <= j /\ (i + 1)..j \subseteq K
    BY <1>2, <1>4, <1>5
  <2>0. IsFiniteSet(K) /\ \A x \in K : x \in Nat
    BY <1>1
  <2>2. Rank(K, j) = Rank(K, i) + (j - i)
    BY <2>0, <2>1, RankRun
  <2>3. Rank(K, j) \in 1..Len(q) /\ q[Rank(K, j)] = s[j]
    BY <1>1, <1>5
  <2> QED
    BY <2>2, <2>3
<1> HIDE DEF k
<1>8. f \in k..Len(q) /\ Rank(K, e) = f
  <2>1. e \in i..e
    BY <1>2, <1>4
  <2>2. Rank(K, e) = k + (e - i) /\ k + (e - i) \in 1..Len(q)
    BY <1>7, <2>1
  <2> QED
    BY <1>2, <1>4, <1>6, <2>2
<1>9. ASSUME NEW m \in k..f
      PROVE  i + (m - k) \in i..e /\ q[m] = s[i + (m - k)]
  <2>1. i + (m - k) \in i..e /\ k + ((i + (m - k)) - i) = m
    BY <1>2, <1>4, <1>6
  <2> QED
    BY <1>7, <2>1
<1>10. f < Len(q) => q[f + 1] = "/"
  <2> SUFFICES ASSUME f < Len(q) PROVE q[f + 1] = "/"
    OBVIOUS
  <2>0. f \in Nat /\ f + 1 \in 1..Len(q)
    BY <1>1, <1>6, <1>8
  <2> HIDE DEF f
  <2>1. PICK d \in K : Rank(K, d) = f + 1
    BY <1>1, <2>0
  <2>2. e \in K
    BY <1>2, <1>4, <1>5
  <2>3. e < d /\ d \in 1..Len(s)
    BY <1>8, <2>0, <2>1, <2>2, KeptInOrder
  <2>4. e + 1 \in 1..Len(s) /\ e + 1 > 1 /\ (e + 1) - 1 = e /\ e < Len(s)
    BY <1>1, <1>4, <2>3
  <2>5. s[e] # "/" /\ s[e + 1] = "/"
    BY <1>2, <1>3, <1>4, <2>4 DEF Ends
  <2>6. e + 1 \in K /\ Rank(K, e + 1) = Rank(K, e) + 1
    BY <2>4, <2>5, SqueezedStep
  <2>7. q[Rank(K, e + 1)] = s[e + 1]
    BY <1>1, <2>6
  <2>8. Rank(K, e + 1) = f + 1
    BY <1>8, <2>6
  <2> QED
    BY <2>5, <2>7, <2>8
<1>11. \A m \in k..f : q[m] # "/"
  BY <1>4, <1>9
<1>12. Ends(q, k, f)
  BY <1>8, <1>10, <1>11 DEF Ends
<1>13. EndOf(q, k) = f
  BY <1>1, <1>6, <1>12, EndOfOnly
<1>14. SubSeq(q, k, f) = SubSeq(s, i, e)
  <2> DEFINE a == SubSeq(q, k, f)
             b == SubSeq(s, i, e)
  <2>1. /\ a \in Seq(PathChars) /\ Len(a) = (e - i) + 1
        /\ \A n \in 1..Len(a) : a[n] = q[k + n - 1]
    <3>1. k \in 1..Len(q) /\ f \in k..Len(q) /\ f - k + 1 = (e - i) + 1
      BY <1>1, <1>2, <1>4, <1>6, <1>8
    <3> HIDE DEF f
    <3>2. q \in Seq(PathChars) /\ Len(q) \in Nat
      BY <1>1
    <3>3. /\ a \in Seq(PathChars) /\ Len(a) = f - k + 1
          /\ \A n \in 1..Len(a) : a[n] = q[k + n - 1]
      BY <3>1, <3>2, PartOfString
    <3> QED
      BY <3>1, <3>3
  <2>2. /\ b \in Seq(PathChars) /\ Len(b) = (e - i) + 1
        /\ \A n \in 1..Len(b) : b[n] = s[i + n - 1]
    BY <1>2, <1>4, PartOfString
  <2>3. ASSUME NEW n \in 1..((e - i) + 1) PROVE q[k + n - 1] = s[i + n - 1]
    <3>1. k + n - 1 \in k..f /\ i + ((k + n - 1) - k) = i + n - 1
      BY <1>2, <1>4, <1>6
    <3> QED
      BY <1>9, <3>1
  <2> HIDE DEF a, b
  <2>4. a = b
    BY <2>1, <2>2, <2>3
  <2> QED
    BY <2>4 DEF a, b
<1> QED
  BY <1>13, <1>14 DEF Name, e, k

\* The loop into buf leaves the components as they are.
LEMMA SqueezedComponents ==
  ASSUME NEW s \in Seq(PathChars)
  PROVE  Components(Squeezed(s)) = Components(s)
<1> DEFINE K == Kept(s)
           q == Squeezed(s)
           S == Starts(q)
           T == Starts(s)
           f == [i \in T |-> Rank(K, i)]
<1>1. /\ \A i \in T : i \in K /\ Rank(K, i) \in S
      /\ \A k \in S : \E i \in T : Rank(K, i) = k
  BY SqueezedStarts
<1>2. q \in Seq(PathChars)
  BY SqueezedAt
<1>3. \A i \in T : Name(q, Rank(K, i)) = Name(s, i)
  BY SqueezedNames
<1>4. \A i \in T, j \in T : i < j => Rank(K, i) < Rank(K, j)
  BY <1>1, KeptInOrder
<1>5. /\ IsFiniteSet(S) /\ \A x \in S : x \in Nat
      /\ IsFiniteSet(T) /\ \A x \in T : x \in Nat
  BY <1>2, StartsFinite
<1> HIDE DEF K, q, S, T
<1>6. /\ f \in [T -> S]
      /\ \A i \in T, j \in T : i < j => f[i] < f[j]
      /\ \A k \in S : \E i \in T : f[i] = k
  BY <1>1, <1>4
<1>7. /\ Cardinality(S) = Cardinality(T)
      /\ \A k \in 1..Cardinality(T) : Nth(S, k) = f[Nth(T, k)]
  <2> HIDE DEF f
  <2> QED
    BY <1>5, <1>6, NthMoves
<1>8. \A k \in 1..Cardinality(T) : Nth(T, k) \in T
  BY <1>5, NthIs
<1>9. \A k \in 1..Cardinality(T) : Name(q, Nth(S, k)) = Name(s, Nth(T, k))
  BY <1>3, <1>7, <1>8
<1>10. /\ Components(q) = [k \in 1..Cardinality(S) |-> Name(q, Nth(S, k))]
       /\ Components(s) = [k \in 1..Cardinality(T) |-> Name(s, Nth(T, k))]
  BY DEF Components, Name, S, T
<1>11. Components(q) = Components(s)
  BY <1>7, <1>9, <1>10
<1> QED
  BY <1>11 DEF q

\* No slash follows a slash in s.
Plain(s) == \A i \in 1..(Len(s) - 1) : ~(s[i] = "/" /\ s[i + 1] = "/")

\* After the loop no slash follows a slash, and a path is absolute if it was.
LEMMA SqueezedPlain ==
  ASSUME NEW s \in Seq(PathChars), NEW K, K = Kept(s), NEW q, q = Squeezed(s)
  PROVE  Plain(q) /\ (IsAbsolute(q) <=> IsAbsolute(s)) /\ q \in Seq(PathChars)
<1>1. /\ K \subseteq 1..Len(s) /\ Len(s) \in Nat
      /\ q \in Seq(PathChars) /\ Len(q) \in Nat
      /\ \A j \in K : Rank(K, j) \in 1..Len(q) /\ q[Rank(K, j)] = s[j]
      /\ \A k \in 1..Len(q) : \E j \in K : Rank(K, j) = k
  BY SqueezedAt
<1>2. ASSUME NEW k \in 1..(Len(q) - 1), q[k] = "/", q[k + 1] = "/" PROVE FALSE
  <2>1. k \in 1..Len(q) /\ k + 1 \in 1..Len(q)
    BY <1>1
  <2>2. PICK a \in K : Rank(K, a) = k
    BY <1>1, <2>1
  <2>3. PICK b \in K : Rank(K, b) = k + 1
    BY <1>1, <2>1
  <2>4. s[a] = "/" /\ s[b] = "/"
    BY <1>1, <1>2, <2>2, <2>3
  <2>5. a \in 1..Len(s) /\ b \in 1..Len(s) /\ a < b
    BY <2>1, <2>2, <2>3, KeptInOrder
  <2>6. b > 1 /\ s[b - 1] # "/"
    BY <2>4, <2>5, KeptAre
  <2>7. b - 1 \in K /\ Rank(K, b) = Rank(K, b - 1) + 1
    BY <2>5, <2>6, SqueezedStep
  <2>8. Rank(K, b - 1) = k
    <3>1. Rank(K, b - 1) \in Nat
      BY <2>7, KeptInOrder
    <3> QED
      BY <2>1, <2>3, <2>7, <3>1
  <2>9. a = b - 1
    BY <2>2, <2>7, <2>8, KeptInOrder
  <2> QED
    BY <2>4, <2>6, <2>9
<1>3. ASSUME s # <<>> PROVE q # <<>> /\ q[1] = s[1]
  <2>1. 1 \in 1..Len(s)
    BY <1>3
  <2>2. 1 \in K
    BY <2>1, KeptAre
  <2>3. Rank(K, 1) \in 1..Len(q) /\ q[Rank(K, 1)] = s[1]
    BY <1>1, <2>2
  <2>4. PICK j \in K : Rank(K, j) = 1
    BY <1>1, <2>3
  <2>5. j \in 1..Len(s) /\ (1 < j => Rank(K, 1) < Rank(K, j))
    BY <2>2, KeptInOrder
  <2>6. j = 1
    BY <2>3, <2>4, <2>5
  <2> QED
    BY <1>1, <2>3, <2>4, <2>6
<1>4. ASSUME s = <<>> PROVE q = <<>>
  <2>1. K = {} /\ Len(s) = 0
    BY <1>1, <1>4
  <2>2. Len(q) = 0
    BY <1>1, <2>1
  <2> QED
    BY <1>1, <2>2
<1> QED
  BY <1>1, <1>2, <1>3, <1>4 DEF Plain, IsAbsolute

\* A slash ends s only if it is all of s.
Closed(s) == s = <<>> \/ s = <<"/">> \/ s[Len(s)] # "/"

\* Cutting the slash at the end changes nothing else.
LEMMA TrimmedRight ==
  ASSUME NEW s \in Seq(PathChars), Plain(s), NEW t, t = Trimmed(s)
  PROVE  /\ t \in Seq(PathChars) /\ Plain(t) /\ Closed(t)
         /\ Components(t) = Components(s)
         /\ IsAbsolute(t) <=> IsAbsolute(s)
<1>1. CASE Len(s) > 1 /\ s[Len(s)] = "/"
  <2> DEFINE n == Len(s) - 1
  <2>1. /\ n \in 0..Len(s) /\ n \in Nat /\ n >= 1 /\ n + 1 = Len(s)
        /\ s[n + 1] = "/" /\ t = SubSeq(s, 1, n)
    BY <1>1 DEF Trimmed, Last, Front
  <2> HIDE DEF n
  <2>2. /\ t \in Seq(PathChars) /\ Len(t) = n
        /\ \A i \in 1..n : t[i] = s[i]
        /\ Starts(t) = {i \in Starts(s) : i <= n}
    BY <2>1, CutStarts
  <2>3. Starts(t) = Starts(s)
    <3>1. ASSUME NEW i \in Starts(s) PROVE i <= n
      <4>1. i \in 1..Len(s) /\ s[i] # "/"
        BY DEF Starts
      <4> QED
        BY <2>1, <4>1
    <3> QED
      BY <2>2, <3>1
  <2>4. Components(t) = SubSeq(Components(s), 1, Cardinality(Starts(t)))
    BY <2>1, CutComponents
  <2>5. /\ Components(s) \in Seq(Seq(PathChars))
        /\ Len(Components(s)) = Cardinality(Starts(s))
    BY ComponentsAre
  <2>6. Components(t) = Components(s)
    BY <2>3, <2>4, <2>5
  <2>7. Plain(t)
    BY <2>1, <2>2 DEF Plain
  <2>8. t[Len(t)] # "/"
    <3>1. n \in 1..(Len(s) - 1)
      BY <2>1
    <3> QED
      BY <2>1, <2>2, <3>1 DEF Plain
  <2>9. t # <<>> /\ s # <<>> /\ t[1] = s[1]
    BY <2>1, <2>2
  <2> QED
    BY <2>2, <2>6, <2>7, <2>8, <2>9 DEF Closed, IsAbsolute
<1>2. CASE ~(Len(s) > 1 /\ s[Len(s)] = "/")
  <2>1. t = s
    BY <1>2 DEF Trimmed, Last
  <2>2. Closed(s)
    <3> SUFFICES ASSUME s # <<>>, s[Len(s)] = "/" PROVE s = <<"/">>
      BY DEF Closed
    <3>0. Len(s) \in Nat /\ Len(s) # 0
      OBVIOUS
    <3>01. ~(Len(s) > 1)
      BY <1>2
    <3>02. Len(s) = 1
      BY <3>0, <3>01
    <3>1. Len(s) = 1 /\ s[1] = "/"
      BY <3>02
    <3> QED
      BY <3>1
  <2> QED
    BY <2>1, <2>2
<1> QED
  BY <1>1, <1>2

\* LastSlash() is the last place with a slash, if there is one.
LEMMA LastSlashIs ==
  ASSUME NEW s \in Seq(PathChars), SlashesIn(s) # {}, NEW l, l = LastSlash(s)
  PROVE  l \in SlashesIn(s) /\ l \in 1..Len(s) /\ \A j \in SlashesIn(s) : j <= l
<1> DEFINE S == SlashesIn(s)
<1>1. S \subseteq 1..Len(s) /\ Len(s) \in Nat
  BY DEF SlashesIn
<1>2. IsFiniteSet(S) /\ \A x \in S : x \in Nat
  BY <1>1, PlacesFinite
<1>3. \E i \in S : \A j \in S : j <= i
  BY <1>2, GreatestOf
<1> QED
  BY <1>1, <1>3 DEF LastSlash

\* The last component begins behind the last slash.
LEMMA LastStart ==
  ASSUME NEW s \in Seq(PathChars), Closed(s), SlashesIn(s) # {}, s # <<"/">>,
         NEW l, l = LastSlash(s), NEW m, m = Cardinality(Starts(s))
  PROVE  /\ l \in 1..(Len(s) - 1) /\ s[l] = "/"
         /\ \A j \in SlashesIn(s) : j <= l
         /\ l + 1 \in Starts(s) /\ \A i \in Starts(s) : i <= l + 1
         /\ m \in Nat \ {0}
         /\ Components(s)[m] = SubSeq(s, l + 1, Len(s))
<1> DEFINE S == SlashesIn(s)
           T == Starts(s)
<1>1. Len(s) \in Nat
  OBVIOUS
<1>4. l \in S /\ \A j \in S : j <= l
  BY LastSlashIs
<1>5. l \in 1..Len(s) /\ s[l] = "/"
  BY <1>4 DEF SlashesIn
<1>6. s[Len(s)] # "/"
  BY <1>5 DEF Closed
<1>7. l \in 1..(Len(s) - 1) /\ l + 1 \in 1..Len(s)
  BY <1>5, <1>6
<1>8. \A j \in (l + 1)..Len(s) : s[j] # "/"
  <2> SUFFICES ASSUME NEW j \in (l + 1)..Len(s), s[j] = "/" PROVE FALSE
    OBVIOUS
  <2>1. j \in S
    BY <1>7 DEF SlashesIn
  <2> QED
    BY <1>4, <1>5, <2>1
<1>9. l + 1 \in T
  BY <1>5, <1>7, <1>8 DEF Starts
<1>10. ASSUME NEW i \in T PROVE i <= l + 1
  <2>1. i \in 1..Len(s) /\ (i > 1 => s[i - 1] = "/")
    BY DEF Starts
  <2>2. ASSUME i > l + 1 PROVE FALSE
    <3>1. i - 1 \in (l + 1)..Len(s) /\ i > 1
      BY <1>5, <2>1, <2>2
    <3> QED
      BY <1>8, <2>1, <3>1
  <2> QED
    BY <1>5, <2>1, <2>2
<1>11. IsFiniteSet(T) /\ (\A x \in T : x \in Nat) /\ m \in Nat
  BY StartsFinite
<1>12. Rank(T, l + 1) = m
  <2>1. {j \in T : j <= l + 1} = T
    BY <1>10
  <2> QED
    BY <2>1 DEF Rank
<1>13. Nth(T, m) = l + 1 /\ m \in 1..m
  <2>1. Nth(T, Rank(T, l + 1)) = l + 1
    BY <1>9, <1>11, NthIs
  <2>2. Rank(T, l + 1) \in 1..m
    BY <1>9, <1>11, RankPositive
  <2> QED
    BY <1>12, <2>1, <2>2
<1>14. EndOf(s, l + 1) = Len(s)
  <2>1. Ends(s, l + 1, Len(s))
    BY <1>1, <1>7, <1>8 DEF Ends
  <2> QED
    BY <1>7, <2>1, EndOfOnly
<1>15. Components(s)[m] = Name(s, Nth(T, m))
  BY <1>13, ComponentsAre
<1>16. Components(s)[m] = SubSeq(s, l + 1, Len(s))
  BY <1>13, <1>14, <1>15 DEF Name
<1> QED
  BY <1>4, <1>5, <1>7, <1>9, <1>10, <1>11, <1>13, <1>16

\* What dirn() makes of a trimmed path is its parent.
LEMMA DirectoryRight ==
  ASSUME NEW s \in Seq(PathChars), Plain(s), Closed(s), NEW d, d = DirectoryOf(s)
  PROVE  IsParent(d, s)
<1> DEFINE names == Components(s)
           m == Cardinality(Starts(s))
<1>0. Len(s) \in Nat /\ DOMAIN s = 1..Len(s)
  OBVIOUS
<1>1. /\ names \in Seq(Seq(PathChars)) /\ Len(names) = m
      /\ IsFiniteSet(Starts(s)) /\ m \in Nat
  BY ComponentsAre, StartsFinite
<1> HIDE DEF names
<1>2. CASE SlashesIn(s) = {1} \/ SlashesIn(s) = {}
  <2>1. m <= 1
    <3>1. \E x : Starts(s) \subseteq {x}
      <4>1. CASE SlashesIn(s) = {1}
        <5>1. ASSUME NEW i \in Starts(s) PROVE i = 2
          <6>1. i \in 1..Len(s) /\ s[i] # "/" /\ (i > 1 => s[i - 1] = "/")
            BY DEF Starts
          <6>2. s[1] = "/"
            BY <4>1 DEF SlashesIn
          <6>3. i > 1 /\ i - 1 \in SlashesIn(s)
            BY <1>0, <6>1, <6>2 DEF SlashesIn
          <6> QED
            BY <4>1, <6>1, <6>3
        <5> QED
          BY <5>1
      <4>2. CASE SlashesIn(s) = {}
        <5>1. ASSUME NEW i \in Starts(s) PROVE i = 1
          <6>1. i \in 1..Len(s) /\ s[i] # "/" /\ (i > 1 => s[i - 1] = "/")
            BY DEF Starts
          <6>2. i > 1 => i - 1 \in SlashesIn(s)
            BY <1>0, <6>1 DEF SlashesIn
          <6> QED
            BY <4>2, <6>1, <6>2
        <5> QED
          BY <5>1
      <4> QED
        BY <1>2, <4>1, <4>2
    <3>2. PICK x : Starts(s) \subseteq {x}
      BY <3>1
    <3>3. IsFiniteSet({x}) /\ Cardinality({x}) = 1
      BY FS_Singleton
    <3>4. Cardinality(Starts(s)) <= Cardinality({x})
      BY <3>2, <3>3, FS_Subset
    <3> QED
      BY <3>3, <3>4
  <2>2. (IF names = <<>> THEN <<>> ELSE Front(names)) = <<>>
    <3>1. CASE m = 0
      BY <1>1, <3>1
    <3>2. CASE m = 1
      <4>1. SubSeq(names, 1, 0) = <<>>
        BY <1>1
      <4> QED
        BY <1>1, <3>2, <4>1 DEF Front
    <3> QED
      BY <1>1, <2>1, <3>1, <3>2
  <2>3. d = NoName(IsAbsolute(s))
    <3>1. CASE SlashesIn(s) = {1}
      <4>1. IsAbsolute(s)
        BY <3>1 DEF SlashesIn, IsAbsolute
      <4>2. d = <<"/">>
        BY <3>1 DEF DirectoryOf
      <4> QED
        BY <4>1, <4>2 DEF NoName
    <3>2. CASE SlashesIn(s) = {}
      <4>1. ~IsAbsolute(s)
        BY <1>0, <3>2 DEF SlashesIn, IsAbsolute
      <4>2. d = <<".">>
        BY <3>2 DEF DirectoryOf
      <4> QED
        BY <4>1, <4>2 DEF NoName
    <3> QED
      BY <1>2, <3>1, <3>2
  <2> QED
    BY <2>2, <2>3 DEF IsParent, Joins, names
<1>3. CASE SlashesIn(s) # {1} /\ SlashesIn(s) # {}
  <2> DEFINE l == LastSlash(s)
             n == l - 1
  <2>0. s # <<"/">>
    BY <1>3 DEF SlashesIn
  <2>1. /\ l \in 1..(Len(s) - 1) /\ s[l] = "/"
        /\ \A j \in SlashesIn(s) : j <= l
        /\ l + 1 \in Starts(s) /\ \A i \in Starts(s) : i <= l + 1
        /\ m \in Nat \ {0}
    BY <1>3, <2>0, LastStart
  <2>2. d = SubSeq(s, 1, n)
    BY <1>3 DEF DirectoryOf
  <2> HIDE DEF l
  <2>3. l > 1
    <3> SUFFICES ASSUME l = 1 PROVE FALSE
      BY <2>1
    <3>1. \A j \in SlashesIn(s) : j = 1
      BY <2>1 DEF SlashesIn
    <3> QED
      BY <1>3, <3>1
  <2>4. /\ n \in 0..Len(s) /\ n \in Nat /\ n >= 1 /\ n + 1 = l
        /\ n < Len(s) /\ s[n + 1] = "/"
    BY <1>0, <2>1, <2>3
  <2> HIDE DEF n
  <2>5. /\ d \in Seq(PathChars) /\ Len(d) = n
        /\ \A i \in 1..n : d[i] = s[i]
        /\ Starts(d) = {i \in Starts(s) : i <= n}
    BY <2>2, <2>4, CutStarts
  <2>6. Starts(s) = Starts(d) \cup {l + 1} /\ l + 1 \notin Starts(d)
    <3>1. ASSUME NEW i \in Starts(s) PROVE i <= n \/ i = l + 1
      <4>1. i \in 1..Len(s) /\ s[i] # "/" /\ i <= l + 1
        BY <2>1 DEF Starts
      <4> QED
        BY <2>1, <2>4, <4>1
    <3>2. ~(l + 1 <= n)
      BY <2>1, <2>4
    <3> QED
      BY <2>1, <2>5, <3>1, <3>2
  <2>7. m = Cardinality(Starts(d)) + 1 /\ Cardinality(Starts(d)) \in Nat
    <3>1. IsFiniteSet(Starts(d)) /\ Cardinality(Starts(d)) \in Nat
      BY <2>5, StartsFinite
    <3>2. Cardinality(Starts(d) \cup {l + 1}) = Cardinality(Starts(d)) + 1
      BY <2>6, <3>1, FS_AddElement
    <3> QED
      BY <2>6, <3>1, <3>2
  <2>8. Components(d) = SubSeq(names, 1, m - 1)
    <3>1. Components(d) = SubSeq(names, 1, Cardinality(Starts(d)))
      BY <2>2, <2>4, CutComponents DEF names
    <3>2. m - 1 = Cardinality(Starts(d))
      BY <2>7
    <3> QED
      BY <3>1, <3>2
  <2>9. Components(d) = Front(names) /\ names # <<>>
    BY <1>1, <2>1, <2>8 DEF Front
  <2>10. d[Len(d)] # "/" /\ d # <<>>
    <3>1. n \in 1..(Len(s) - 1) /\ n \in 1..n
      BY <1>0, <2>4
    <3> QED
      BY <2>4, <2>5, <3>1 DEF Plain
  <2>11. Front(names) # <<>>
    <3> DEFINE R == {i \in 1..n : \A j \in i..n : s[j] # "/"}
    <3>1. n \in R
      BY <2>4, <2>5, <2>10
    <3>2. IsFiniteSet(R) /\ \A x \in R : x \in Nat
      BY <2>4, PlacesFinite
    <3>3. PICK i \in R : \A j \in R : i <= j
      BY <3>1, <3>2, LeastOf
    <3>4. i > 1 => s[i - 1] = "/"
      <4> SUFFICES ASSUME i > 1, s[i - 1] # "/" PROVE FALSE
        OBVIOUS
      <4>1. i - 1 \in 1..n /\ \A j \in (i - 1)..n : s[j] # "/"
        BY <2>4
      <4>2. i - 1 \in R
        BY <4>1
      <4>3. i <= i - 1
        BY <3>3, <4>2
      <4> QED
        BY <4>3
    <3>5. i \in Starts(s)
      BY <1>0, <2>4, <3>4 DEF Starts
    <3>6. i \in Starts(d)
      BY <2>4, <2>5, <3>5
    <3>7. Cardinality(Starts(d)) # 0
      BY <2>5, <3>6, StartsFinite, FS_EmptySet
    <3>8. Len(Components(d)) # 0
      BY <2>5, <3>7, ComponentsAre
    <3> QED
      BY <2>9, <3>8
  <2>12. \A i \in 1..(Len(d) - 1) : ~(d[i] = "/" /\ d[i + 1] = "/")
    BY <2>4, <2>5 DEF Plain
  <2>13. IsAbsolute(d) <=> IsAbsolute(s)
    BY <2>4, <2>5, <2>10 DEF IsAbsolute
  <2> QED
    BY <2>9, <2>10, <2>11, <2>12, <2>13 DEF IsParent, Joins, names
<1> QED
  BY <1>2, <1>3

\* What basen() makes of a trimmed path is its last component, perhaps with
\* what is found behind filename.
LEMMA NameRight ==
  ASSUME NEW s \in Seq(PathChars), Closed(s), NEW tail \in Seq(PathChars)
  PROVE  NameOf(s, tail) \in {BaseName(s), BaseName(s) \o tail}
<1> DEFINE names == Components(s)
           m == Cardinality(Starts(s))
<1>0. Len(s) \in Nat /\ DOMAIN s = 1..Len(s)
  OBVIOUS
<1>1. /\ names \in Seq(Seq(PathChars)) /\ Len(names) = m
      /\ IsFiniteSet(Starts(s)) /\ m \in Nat
      /\ \A k \in 1..m : names[k] = Name(s, Nth(Starts(s), k))
  BY ComponentsAre, StartsFinite
<1> HIDE DEF names
<1>2. CASE s = <<>>
  <2>1. Starts(s) = {}
    BY <1>2 DEF Starts
  <2>2. names = <<>>
    BY <1>1, <2>1, FS_EmptySet
  <2> QED
    BY <1>2, <2>2 DEF NameOf, BaseName, NoName, IsAbsolute, names
<1>3. CASE s = <<"/">>
  <2>1. Starts(s) = {}
    BY <1>3 DEF Starts
  <2>2. names = <<>>
    BY <1>1, <2>1, FS_EmptySet
  <2>3. IsAbsolute(s) /\ SlashesIn(s) # {} /\ s # <<>>
    BY <1>3 DEF IsAbsolute, SlashesIn
  <2> QED
    BY <1>3, <2>2, <2>3 DEF NameOf, BaseName, NoName, names
<1>4. CASE s # <<>> /\ SlashesIn(s) = {}
  <2>1. 1 \in Starts(s) /\ 1 \in 1..Len(s)
    BY <1>0, <1>4 DEF Starts, SlashesIn
  <2>2. ASSUME NEW i \in Starts(s) PROVE i = 1
    <3>1. i \in 1..Len(s) /\ (i > 1 => i - 1 \in SlashesIn(s))
      BY <1>0 DEF Starts, SlashesIn
    <3> QED
      BY <1>4, <3>1
  <2>3. Starts(s) = {1}
    BY <2>1, <2>2
  <2>4. m = 1
    BY <2>3, FS_Singleton
  <2>5. Nth(Starts(s), 1) = 1
    <3>1. Nth(Starts(s), 1) \in Starts(s)
      BY <2>4, StartsFinite, NthIs
    <3> QED
      BY <2>3, <3>1
  <2>6. EndOf(s, 1) = Len(s)
    <3>1. Ends(s, 1, Len(s))
      BY <1>0, <1>4, <2>1 DEF Ends, SlashesIn
    <3> QED
      BY <2>1, <3>1, EndOfOnly
  <2>7. names[1] = SubSeq(s, 1, Len(s))
    <3>1. names[1] = Name(s, Nth(Starts(s), 1))
      BY <1>1, <2>4
    <3> QED
      BY <2>5, <2>6, <3>1 DEF Name
  <2>8. SubSeq(s, 1, Len(s)) = s
    OBVIOUS
  <2>9. names # <<>> /\ Last(names) = s
    <3>0. Len(names) = 1
      BY <1>1, <2>4
    <3>1. ASSUME names = <<>> PROVE FALSE
      <4>1. Len(names) = 0
        BY <3>1
      <4> QED
        BY <3>0, <4>1
    <3> QED
      BY <2>7, <2>8, <3>0, <3>1 DEF Last
  <2> QED
    BY <1>4, <2>9 DEF NameOf, BaseName, names
<1>5. CASE s # <<>> /\ SlashesIn(s) # {} /\ s # <<"/">>
  <2>1. m \in Nat \ {0} /\ names[m] = SubSeq(s, LastSlash(s) + 1, Len(s))
    BY <1>5, LastStart DEF names
  <2>2. names # <<>> /\ Last(names) = SubSeq(s, LastSlash(s) + 1, Len(s))
    BY <1>1, <2>1 DEF Last
  <2>3. NameOf(s, tail) = SubSeq(s, LastSlash(s) + 1, Len(s)) \o tail
    BY <1>5 DEF NameOf, Filename
  <2> QED
    BY <2>2, <2>3 DEF BaseName, names
<1> QED
  BY <1>2, <1>3, <1>4, <1>5

\* Answers are strings of characters.
LEMMA AnswerTypes ==
  ASSUME NEW s \in Seq(PathChars), NEW tail \in Seq(PathChars)
  PROVE  /\ Trimmed(s) \in Seq(PathChars)
         /\ DirectoryOf(s) \in Seq(PathChars)
         /\ NameOf(s, tail) \in Seq(PathChars)
<1>0. Len(s) \in Nat /\ <<"/">> \in Seq(PathChars) /\ <<".">> \in Seq(PathChars)
  BY PathAssumption
<1>1. Trimmed(s) \in Seq(PathChars)
  <2>1. CASE Len(s) > 1
    <3>1. SubSeq(s, 1, Len(s) - 1) \in Seq(PathChars)
      BY <1>0, <2>1
    <3> QED
      BY <3>1 DEF Trimmed, Front
  <2>2. CASE ~(Len(s) > 1)
    BY <2>2 DEF Trimmed
  <2> QED
    BY <2>1, <2>2
<1> DEFINE l == LastSlash(s)
<1>2. CASE SlashesIn(s) = {}
  BY <1>0, <1>1, <1>2 DEF DirectoryOf, NameOf
<1>3. CASE SlashesIn(s) # {}
  <2>1. l \in 1..Len(s)
    BY <1>3, LastSlashIs
  <2> HIDE DEF l
  <2>2. SubSeq(s, 1, l - 1) \in Seq(PathChars)
    BY <1>0, <2>1
  <2>3. SubSeq(s, l + 1, Len(s)) \in Seq(PathChars)
    BY <1>0, <2>1
  <2>4. SubSeq(s, l + 1, Len(s)) \o tail \in Seq(PathChars)
    BY <2>3
  <2>5. DirectoryOf(s) \in {<<"/">>, SubSeq(s, 1, l - 1)}
    BY <1>3 DEF DirectoryOf, l
  <2>6. NameOf(s, tail) \in {<<".">>, s, SubSeq(s, l + 1, Len(s)) \o tail}
    BY <1>3 DEF NameOf, Filename, l
  <2> QED
    BY <1>0, <1>1, <2>2, <2>4, <2>5, <2>6
<1> QED
  BY <1>2, <1>3

\* The threads: what the buffer of a thread and a function holds at each place
\* of the call, whatever the others do.
PathTypes ==
  /\ place \in [Callers -> {"out", "copy", "squeeze", "trim", "answer", "undefined"}]
  /\ fn \in [Callers -> FnNames]
  /\ string \in [Keys -> Seq(PathChars)]
  /\ bufTail \in [Keys -> Seq(PathChars)]
  /\ fileTail \in [Keys -> Seq(PathChars)]
  /\ asked \in [Keys -> {<<>>} \cup {<<p>> : p \in Seq(PathChars)}]
  /\ \A t \in Callers : place[t] # "out" => asked[<<t, fn[t]>>] # <<>>

Halfway(t) ==
  LET k == <<t, fn[t]>>
      p == asked[k][1]
  IN  /\ place[t] = "squeeze" => string[k] = p
      /\ place[t] = "trim" => string[k] = Squeezed(p) \o bufTail[k]
      /\ place[t] = "answer" => string[k] = Trimmed(Squeezed(p) \o bufTail[k])

\* What the function f leaves in its buffer.
Left(t, f) ==
  LET k == <<t, f>>
      s == Trimmed(Squeezed(asked[k][1]) \o bufTail[k])
  IN  IF f = "dirn" THEN DirectoryOf(s) ELSE NameOf(s, fileTail[k])

PathInv ==
  /\ PathTypes
  /\ \A t \in Callers : Halfway(t)
  /\ \A t \in Callers, f \in FnNames : HasAnswer(t, f) => string[<<t, f>>] = Left(t, f)

\* The invariant makes the answers right: what was left in the buffer is the parent
\* or the last component of the path asked for.
LEMMA PathsHoldAnswers == PathInv => AnswersRight
<1> SUFFICES ASSUME PathInv PROVE AnswersRight
  OBVIOUS
<1>1. ASSUME NEW t \in Callers, NEW f \in FnNames, HasAnswer(t, f), bufTail[<<t, f>>] = <<>>
      PROVE  \E p, s \in Seq(PathChars) :
               /\ asked[<<t, f>>][1] = p
               /\ Plain(s) /\ Closed(s)
               /\ Components(s) = Components(p) /\ (IsAbsolute(s) <=> IsAbsolute(p))
               /\ string[<<t, f>>]
                    = IF f = "dirn" THEN DirectoryOf(s) ELSE NameOf(s, fileTail[<<t, f>>])
  <2> DEFINE p == asked[<<t, f>>][1]
             q == Squeezed(p)
             s == Trimmed(q)
  <2>1. <<t, f>> \in Keys
    BY DEF Keys
  <2>2. p \in Seq(PathChars)
    BY <1>1, <2>1 DEF PathInv, PathTypes, HasAnswer
  <2>3. q \in Seq(PathChars) /\ Plain(q) /\ (IsAbsolute(q) <=> IsAbsolute(p))
    BY <2>2, SqueezedPlain
  <2>4. Components(q) = Components(p)
    BY <2>2, SqueezedComponents
  <2>5. q \o bufTail[<<t, f>>] = q
    BY <1>1, <2>3
  <2>6. string[<<t, f>>] = Left(t, f)
    BY <1>1 DEF PathInv
  <2>7. string[<<t, f>>]
          = IF f = "dirn" THEN DirectoryOf(s) ELSE NameOf(s, fileTail[<<t, f>>])
    BY <2>5, <2>6 DEF Left
  <2> HIDE DEF q
  <2>8. /\ s \in Seq(PathChars) /\ Plain(s) /\ Closed(s)
        /\ Components(s) = Components(q) /\ (IsAbsolute(s) <=> IsAbsolute(q))
    BY <2>3, TrimmedRight
  <2> HIDE DEF s
  <2> QED
    BY <2>2, <2>3, <2>4, <2>7, <2>8
<1>2. DirnRight
  <2> SUFFICES ASSUME NEW t \in Callers, HasAnswer(t, "dirn"), bufTail[<<t, "dirn">>] = <<>>
               PROVE  IsParent(string[<<t, "dirn">>], asked[<<t, "dirn">>][1])
    BY DEF DirnRight
  <2>0. "dirn" \in FnNames
    BY DEF FnNames
  <2>1. PICK p \in Seq(PathChars), s \in Seq(PathChars) :
          /\ asked[<<t, "dirn">>][1] = p
          /\ Plain(s) /\ Closed(s)
          /\ Components(s) = Components(p) /\ (IsAbsolute(s) <=> IsAbsolute(p))
          /\ string[<<t, "dirn">>] = DirectoryOf(s)
    BY <1>1, <2>0
  <2>2. IsParent(DirectoryOf(s), s)
    BY <2>1, DirectoryRight
  <2> QED
    BY <2>1, <2>2 DEF IsParent, Joins, NoName
<1>3. BasenRight
  <2> SUFFICES ASSUME NEW t \in Callers, HasAnswer(t, "basen"),
                      bufTail[<<t, "basen">>] = <<>>
               PROVE  LET base == BaseName(asked[<<t, "basen">>][1])
                      IN  string[<<t, "basen">>] \in {base, base \o fileTail[<<t, "basen">>]}
    BY DEF BasenRight
  <2>0. "basen" \in FnNames /\ <<t, "basen">> \in Keys
    BY DEF FnNames, Keys
  <2>1. PICK p \in Seq(PathChars), s \in Seq(PathChars) :
          /\ asked[<<t, "basen">>][1] = p
          /\ Plain(s) /\ Closed(s)
          /\ Components(s) = Components(p) /\ (IsAbsolute(s) <=> IsAbsolute(p))
          /\ string[<<t, "basen">>] = NameOf(s, fileTail[<<t, "basen">>])
    BY <1>1, <2>0
  <2>2. fileTail[<<t, "basen">>] \in Seq(PathChars)
    BY <2>0 DEF PathInv, PathTypes
  <2>3. BaseName(s) = BaseName(p)
    BY <2>1 DEF BaseName, NoName
  <2>4. NameOf(s, fileTail[<<t, "basen">>])
          \in {BaseName(s), BaseName(s) \o fileTail[<<t, "basen">>]}
    BY <2>1, <2>2, NameRight
  <2> QED
    BY <2>1, <2>3, <2>4
<1> QED
  BY <1>2, <1>3 DEF AnswersRight

\* A step inside a call changes the buffer of this thread and function only.
LEMMA BufferStep ==
  ASSUME PathInv, NEW t \in Callers, place[t] # "out", UNCHANGED <<fn, asked>>,
         NEW c \in {"out", "squeeze", "trim", "answer", "undefined"}, place' = [place EXCEPT ![t] = c],
         NEW v \in Seq(PathChars), string' = [string EXCEPT ![<<t, fn[t]>>] = v],
         NEW b \in Seq(PathChars), bufTail' = [bufTail EXCEPT ![<<t, fn[t]>>] = b],
         NEW d \in Seq(PathChars), fileTail' = [fileTail EXCEPT ![<<t, fn[t]>>] = d],
         Halfway(t)', c = "out" => v = Left(t, fn[t])'
  PROVE  PathInv'
<1>0. PathTypes /\ fn[t] \in FnNames /\ \A u \in Callers, f \in FnNames : <<u, f>> \in Keys
  BY DEF PathInv, PathTypes, Keys
<1>1. PathTypes'
  BY <1>0 DEF PathTypes
<1>2. ASSUME NEW u \in Callers PROVE Halfway(u)'
  <2>1. CASE u = t
    BY <2>1
  <2>2. CASE u # t
    <3>1. <<u, fn[u]>> # <<t, fn[t]>> /\ place'[u] = place[u]
      BY <1>0, <2>2 DEF PathTypes
    <3>2. Halfway(u)
      BY DEF PathInv
    <3> QED
      BY <1>0, <3>1, <3>2 DEF PathTypes, Halfway
  <2> QED
    BY <2>1, <2>2
<1>3. ASSUME NEW u \in Callers, NEW f \in FnNames, HasAnswer(u, f)'
      PROVE  (string[<<u, f>>] = Left(u, f))'
  <2>1. CASE u = t /\ f = fn[t]
    <3>1. c = "out"
      BY <1>0, <1>3, <2>1 DEF PathTypes, HasAnswer
    <3> QED
      BY <1>0, <2>1, <3>1 DEF PathTypes
  <2>2. CASE ~(u = t /\ f = fn[t])
    <3>1. <<u, f>> # <<t, fn[t]>>
      BY <2>2
    <3>2. HasAnswer(u, f)
      BY <1>0, <1>3, <2>2 DEF PathTypes, HasAnswer
    <3>3. string[<<u, f>>] = Left(u, f)
      BY <3>2 DEF PathInv
    <3> QED
      BY <1>0, <3>1, <3>3 DEF PathTypes, Left
  <2> QED
    BY <2>1, <2>2
<1> QED
  BY <1>1, <1>2, <1>3 DEF PathInv

\* A step of one thread leaves the buffers of the others alone.
LEMMA PathStep == PathInv /\ [PathNext]_pathVars => PathInv'
<1> SUFFICES ASSUME PathInv, [PathNext]_pathVars PROVE PathInv'
  OBVIOUS
<1>0. PathTypes /\ \A t \in Callers, f \in FnNames : <<t, f>> \in Keys
  BY DEF PathInv, Keys
<1>1. CASE UNCHANGED pathVars
  BY <1>1 DEF PathInv, PathTypes, Halfway, HasAnswer, Left, pathVars
<1>2. ASSUME NEW t \in Callers, CallerNext(t) PROVE PathInv'
  <2> DEFINE k == <<t, fn[t]>>
  <2>0. fn[t] \in FnNames /\ k \in Keys
    BY <1>0 DEF PathTypes
  <2>1. ASSUME NEW f \in FnNames, NEW p \in PathsOf[t], CallFn(t, f, p) PROVE PathInv'
    <3>1. p \in Seq(PathChars)
      BY PathAssumption
    <3>2. PathTypes'
      BY <1>0, <2>1, <3>1 DEF PathTypes, CallFn
    <3>3. \A u \in Callers : Halfway(u)'
      BY <1>0, <2>1 DEF PathInv, PathTypes, CallFn, Halfway
    <3>4. ASSUME NEW u \in Callers, NEW g \in FnNames, HasAnswer(u, g)'
          PROVE  (string[<<u, g>>] = Left(u, g))'
      <4>1. <<u, g>> # <<t, f>> /\ HasAnswer(u, g)
        BY <1>0, <2>1, <3>4 DEF PathTypes, CallFn, HasAnswer
      <4> QED
        BY <1>0, <2>1, <4>1 DEF PathInv, PathTypes, CallFn, Left
    <3> QED
      BY <3>2, <3>3, <3>4 DEF PathInv
  <2>2. /\ string[k] \in Seq(PathChars) /\ bufTail[k] \in Seq(PathChars)
        /\ fileTail[k] \in Seq(PathChars)
        /\ bufTail = [bufTail EXCEPT ![k] = bufTail[k]]
        /\ fileTail = [fileTail EXCEPT ![k] = fileTail[k]]
        /\ place[t] # "out" => asked[k][1] \in Seq(PathChars)
    BY <1>0, <2>0 DEF PathTypes
  <2>3. Specific(t) = k
    BY DEF Specific
  <2>4. Halfway(t)
    BY DEF PathInv
  <2>5. CASE CopyIn(t)
    <3> DEFINE v == asked[k][1]
    <3>1. PICK c \in {"squeeze", "undefined"} :
            /\ place[t] # "out" /\ UNCHANGED <<fn, asked, bufTail, fileTail>>
            /\ place' = [place EXCEPT ![t] = c]
            /\ string' = [string EXCEPT ![k] = v]
      BY <2>3, <2>5 DEF CopyIn, GoOn
    <3>2. Halfway(t)'
      BY <1>0, <2>0, <3>1 DEF PathTypes, Halfway
    <3> QED
      BY <2>2, <3>1, <3>2, BufferStep
  <2>6. CASE Squeeze(t)
    <3>1. PICK tail \in BufTails[t], c \in {"trim", "undefined"} :
            /\ place[t] = "squeeze" /\ UNCHANGED <<fn, asked, fileTail>>
            /\ place' = [place EXCEPT ![t] = c]
            /\ string' = [string EXCEPT ![k] = Squeezed(string[k]) \o tail]
            /\ bufTail' = [bufTail EXCEPT ![k] = tail]
      BY <2>3, <2>6 DEF Squeeze, GoOn
    <3> DEFINE v == Squeezed(string[k]) \o tail
    <3>2. tail \in Seq(PathChars)
      BY PathAssumption
    <3>3. v \in Seq(PathChars)
      <4>1. Squeezed(string[k]) \in Seq(PathChars)
        BY <2>2, SqueezedPlain
      <4> QED
        BY <3>2, <4>1
    <3>4. string[k] = asked[k][1]
      BY <2>4, <3>1 DEF Halfway
    <3>5. Halfway(t)'
      BY <1>0, <2>0, <3>1, <3>4 DEF PathTypes, Halfway
    <3> QED
      BY <2>2, <3>1, <3>2, <3>3, <3>5, BufferStep
  <2>7. CASE Trim(t)
    <3> DEFINE v == Trimmed(string[k])
    <3>1. /\ place[t] = "trim" /\ UNCHANGED <<fn, asked, bufTail, fileTail>>
          /\ place' = [place EXCEPT ![t] = "answer"]
          /\ string' = [string EXCEPT ![k] = v]
      BY <2>3, <2>7 DEF Trim
    <3>2. v \in Seq(PathChars)
      BY <2>2, AnswerTypes
    <3>3. string[k] = Squeezed(asked[k][1]) \o bufTail[k]
      BY <2>4, <3>1 DEF Halfway
    <3>4. Halfway(t)'
      BY <1>0, <2>0, <3>1, <3>3 DEF PathTypes, Halfway
    <3> QED
      BY <2>2, <3>1, <3>2, <3>4, BufferStep
  <2>8. CASE AnswerDirn(t)
    <3> DEFINE v == DirectoryOf(string[k])
    <3>1. /\ place[t] = "answer" /\ fn[t] = "dirn"
          /\ UNCHANGED <<fn, asked, bufTail, fileTail>>
          /\ place' = [place EXCEPT ![t] = "out"]
          /\ string' = [string EXCEPT ![k] = v]
      BY <2>3, <2>8 DEF AnswerDirn
    <3>2. v \in Seq(PathChars)
      BY <2>2, AnswerTypes
    <3>3. string[k] = Trimmed(Squeezed(asked[k][1]) \o bufTail[k])
      BY <2>4, <3>1 DEF Halfway
    <3>4. Halfway(t)'
      BY <1>0, <2>0, <3>1 DEF PathTypes, Halfway
    <3>5. v = Left(t, fn[t])'
      BY <3>1, <3>3 DEF Left
    <3> QED
      BY <2>2, <3>1, <3>2, <3>4, <3>5, BufferStep
  <2>9. CASE AnswerBasen(t)
    <3>1. PICK tail \in FileTails[t], c \in {"out", "undefined"} :
            /\ place[t] = "answer" /\ fn[t] = "basen" /\ UNCHANGED <<fn, asked, bufTail>>
            /\ place' = [place EXCEPT ![t] = c]
            /\ string' = [string EXCEPT ![k] = NameOf(string[k], tail)]
            /\ fileTail' = [fileTail EXCEPT ![k] = tail]
      BY <2>3, <2>9 DEF AnswerBasen, GoOn
    <3> DEFINE v == NameOf(string[k], tail)
    <3>2. tail \in Seq(PathChars)
      BY PathAssumption
    <3>3. v \in Seq(PathChars)
      BY <2>2, <3>2, AnswerTypes
    <3>4. string[k] = Trimmed(Squeezed(asked[k][1]) \o bufTail[k])
      BY <2>4, <3>1 DEF Halfway
    <3>5. Halfway(t)'
      BY <1>0, <2>0, <3>1 DEF PathTypes, Halfway
    <3>6. v = Left(t, fn[t])'
      BY <1>0, <2>0, <3>1, <3>4 DEF PathTypes, Left
    <3> QED
      BY <2>2, <3>1, <3>2, <3>3, <3>5, <3>6, BufferStep
  <2> QED
    BY <1>2, <2>1, <2>5, <2>6, <2>7, <2>8, <2>9 DEF CallerNext
<1> QED
  BY <1>1, <1>2 DEF PathNext

\* What dirn() and basen() answer is right, for any paths and any number of threads,
\* as long as nobody's path is too long for a buffer nor a last component for
\* filename[] (basen.c:20, 121): the passes over the string give the parent and the last
\* component (dirn.c:40-111, basen.c:41-130), and the buffer of a thread and a
\* function is written by this thread in this function only.
THEOREM PathAnswersAreRight == PathSpec => []AnswersRight
<1>1. PathInit => PathInv
  BY DEF PathInit, PathInv, PathTypes, Halfway, HasAnswer, FnNames, Keys
<1> QED
  BY <1>1, PathStep, PathsHoldAnswers, PTL DEF PathSpec
=============================================================================
