---------------------------- MODULE KernelProofs ----------------------------
(***************************************************************************)
(* Proofs about the kernel modules: the disk of block_device, the          *)
(* character device of ioctl, the /proc file and the /sys file, for any    *)
(* number of processes and CPUs, any lengths and any number of calls.      *)
(***************************************************************************)
EXTENDS BlockDevice, RWDevice, ProcFile, SysFile, FiniteSetTheorems,
        SequenceTheorems, TLAPS

\* Calls that do not overlap: one process is inside at most.
OneInside == ~tainted => \A u, v \in Busy : u = v
----------------------------------------------------------------------------
(* proc/hello.c *)

ProcTypes ==
  /\ at \in [Users -> {"out", "write", "clip", "cut", "subtract", "store", "copy"}]
  /\ temp \in Int /\ granted \in Int /\ given \in Int
  /\ count \in [Users -> Int] /\ left \in [Users -> Int]

\* What is left, and where it is while a reader takes its part of it.
Portion(u) ==
  /\ at[u] = "write" => count[u] >= 0
  /\ at[u] \in {"clip", "cut"} =>
       given + temp = granted /\ 0 <= temp /\ 0 <= count[u]
  /\ at[u] \in {"subtract", "store"} =>
       given + temp = granted /\ 0 <= count[u] /\ count[u] <= temp
  /\ at[u] = "store" => left[u] = temp - count[u]
  /\ at[u] = "copy" =>
       given + temp + count[u] = granted /\ 0 <= temp /\ 0 <= count[u]

ProcInv ==
  /\ ProcTypes
  /\ OneInside
  /\ ~tainted => BudgetKept /\ \A u \in Users : Portion(u)

\* One step of a process keeps the budget.
LEMMA ProcStepInv == ProcInv /\ [ProcNext]_<<callVars, procVars>> => ProcInv'
<1> SUFFICES ASSUME ProcInv, [ProcNext]_<<callVars, procVars>> PROVE ProcInv'
  OBVIOUS
<1> USE DEF ProcInv, ProcTypes, OneInside, BudgetKept, Portion, Busy, Step, Enter, callVars, procVars
<1>1. CASE ProcReload
  <2>1. ProcTypes' /\ at' = at /\ \A u \in Users : at[u] = "out"
    BY <1>1 DEF ProcReload
  <2>2. BudgetKept' /\ OneInside'
    BY <1>1, <2>1 DEF ProcReload
  <2> QED
    BY <2>1, <2>2
<1>2. ASSUME NEW u \in Users, NEW n \in Hellos, write_proc(u, n) PROVE ProcInv'
  <2>1. n \in Int /\ n >= 0
    BY ProcAssumption
  <2>2. ProcTypes'
    BY <1>2, <2>1 DEF write_proc
  <2>3. OneInside'
    BY <1>2 DEF write_proc
  <2>4. ~tainted' => Busy = {} /\ count'[u] = n /\ at'[u] = "write" /\ at[u] = "out"
    BY <1>2 DEF write_proc
  <2> QED
    BY <1>2, <2>1, <2>2, <2>3, <2>4 DEF write_proc
<1>3. ASSUME NEW u \in Users, SetTemp(u) PROVE ProcInv'
  BY <1>3 DEF SetTemp
<1>4. ASSUME NEW u \in Users, NEW n \in Counts, read_proc(u, n) PROVE ProcInv'
  <2>1. n \in Int /\ n >= 0
    BY ProcAssumption
  <2>2. ProcTypes'
    BY <1>4, <2>1 DEF read_proc
  <2>3. OneInside'
    BY <1>4 DEF read_proc
  <2>4. ASSUME ~tainted' PROVE ~tainted /\ Busy = {} /\ temp >= 0 /\ given + temp = granted
    BY <1>4, <2>4 DEF read_proc
  <2>5. ASSUME ~tainted' PROVE BudgetKept' /\ \A v \in Users : Portion(v)'
    <3>1. \A v \in Users : at'[v] = (IF v = u THEN "clip" ELSE "out")
      BY <1>4, <2>4, <2>5 DEF read_proc
    <3> QED
      BY <1>4, <2>1, <2>4, <2>5, <3>1 DEF read_proc
  <2> QED
    BY <2>2, <2>3, <2>5
<1>5. ASSUME NEW u \in Users, Clip(u) PROVE ProcInv'
  BY <1>5 DEF Clip
<1>6. ASSUME NEW u \in Users, Cut(u) PROVE ProcInv'
  BY <1>6 DEF Cut
<1>7. ASSUME NEW u \in Users, Subtract(u) PROVE ProcInv'
  BY <1>7 DEF Subtract
<1>8. ASSUME NEW u \in Users, StoreTemp(u) PROVE ProcInv'
  BY <1>8 DEF StoreTemp
<1>9. ASSUME NEW u \in Users, CopyOut(u) PROVE ProcInv'
  BY <1>9 DEF CopyOut
<1>10. CASE UNCHANGED <<callVars, procVars>>
  BY <1>10
<1> QED
  BY <1>1, <1>2, <1>3, <1>4, <1>5, <1>6, <1>7, <1>8, <1>9, <1>10 DEF ProcNext

\* The readers of the /proc file together get what the last "hello" granted
\* and no more, as long as no calls have overlapped since (proc/hello.c:19).
THEOREM ProcBudget == ProcSpec => []BudgetKept
<1>1. CallsInit /\ ProcInit => ProcInv
  <2> SUFFICES ASSUME CallsInit, ProcInit PROVE ProcInv
    OBVIOUS
  <2>1. ProcTypes /\ \A u \in Users : at[u] = "out"
    BY DEF CallsInit, ProcInit, ProcTypes
  <2>2. OneInside /\ BudgetKept
    BY <2>1 DEF ProcInit, OneInside, BudgetKept, Busy
  <2> QED
    BY <2>1, <2>2 DEF ProcInv, Portion
<1>2. ProcInv => BudgetKept
  BY DEF ProcInv, BudgetKept
<1> QED
  BY <1>1, <1>2, ProcStepInv, PTL DEF ProcSpec
----------------------------------------------------------------------------
(* sys/hello.c *)

\* The processes that have found foo filled and not answered yet.
Clearing == {u \in Users : at[u] = "clear"}

SysTypes ==
  /\ at \in [Users -> {"out", "store", "show", "clear"}]
  /\ sysmod \in {"out", "loading", "in"}
  /\ answered \in Nat

\* Those who may answer are among those who have not answered this "hello":
\* while foo is filled nobody has, and once it is clear nobody joins them.
Answers ==
  /\ foo => answered = 0
  /\ answered + Cardinality(Clearing) <= Cardinality(Users)
  /\ ~stored => ~foo /\ answered = 0 /\ Clearing = {}

\* The directory is there while the module is, and stays after half a load.
Directory ==
  /\ sysmod # "in" => Busy = {}
  /\ sysmod # "out" => kobject /\ ~half
  /\ sysmod = "out" => (kobject <=> half)

\* What a process alone in the file relies on.
AnswersAlone ==
  ~tainted =>
    /\ (\A u \in Users : at[u] # "store") => answered <= 1
    /\ \A u \in Users : at[u] = "clear" => foo

SysInv == SysTypes /\ OneInside /\ Answers /\ Directory /\ AnswersAlone

\* Every step of the module or of a process preserves it.
LEMMA SysStepInv == SysInv /\ [SysNext]_<<callVars, sysVars>> => SysInv'
<1> SUFFICES ASSUME SysInv, [SysNext]_<<callVars, sysVars>> PROVE SysInv'
  OBVIOUS
<1> USE DEF SysInv, SysTypes, OneInside, Directory, AnswersAlone, Busy, callVars, sysVars
<1>0. /\ IsFiniteSet(Users) /\ Cardinality(Users) \in Nat
      /\ IsFiniteSet(Clearing) /\ Cardinality(Clearing) \in Nat
      /\ Cardinality(Clearing) <= Cardinality(Users)
  <2>1. IsFiniteSet(Users) /\ Clearing \subseteq Users
    BY CallsAssumption DEF Clearing
  <2> QED
    BY <2>1, FS_Subset, FS_CardinalityType
<1>1. CASE CreateKobject
  <2>1. Clearing' = {} /\ Cardinality(Clearing') = 0
    BY <1>1, FS_EmptySet DEF CreateKobject, Clearing
  <2>2. SysTypes' /\ OneInside' /\ Directory'
    BY <1>1 DEF CreateKobject
  <2>3. Answers'
    BY <1>0, <1>1, <2>1 DEF CreateKobject, Answers
  <2>4. AnswersAlone'
    BY <1>1 DEF CreateKobject
  <2> QED
    BY <2>2, <2>3, <2>4
<1>2. CASE CreateFile
  BY <1>2 DEF CreateFile, Answers, Clearing
<1>3. CASE sys_exit
  BY <1>3 DEF sys_exit, Answers, Clearing
<1>4. ASSUME NEW u \in Users, sysmod = "in" /\ UNCHANGED sysVars,
             Enter(u, "store", TRUE) \/ Enter(u, "show", FALSE)
      PROVE  SysInv'
  <2>1. Clearing' = Clearing
    BY <1>4 DEF Enter, Clearing
  <2>2. SysTypes' /\ OneInside' /\ Directory'
    BY <1>4, ZenonT(60) DEF Enter
  <2>3. Answers'
    BY <1>4, <2>1 DEF Answers
  <2>4. AnswersAlone'
    <3>1. CASE Enter(u, "store", TRUE)
      BY <1>4, <3>1 DEF Enter
    <3>2. CASE Enter(u, "show", FALSE)
      BY <1>4, <3>2 DEF Enter
    <3> QED
      BY <1>4, <3>1, <3>2
  <2> QED
    BY <2>2, <2>3, <2>4
<1>5. ASSUME NEW u \in Users, foo_store(u), Step(u, "store", "out") PROVE SysInv'
  <2>1. Clearing' = Clearing
    BY <1>5 DEF Step, Clearing
  <2> QED
    BY <1>0, <1>5, <2>1 DEF foo_store, Step, Enter, Answers
<1>6. ASSUME NEW u \in Users, Step(u, "show", IF foo THEN "clear" ELSE "out"), UNCHANGED sysVars
      PROVE  SysInv'
  <2>1. CASE foo
    <3>1. Clearing' \subseteq Users
      BY DEF Clearing
    <3>2. Cardinality(Clearing') \in Nat /\ Cardinality(Clearing') <= Cardinality(Users)
      BY <1>0, <3>1, FS_Subset, FS_CardinalityType
    <3> QED
      BY <1>0, <1>6, <2>1, <3>2 DEF Step, Answers
  <2>2. CASE ~foo
    <3>1. Clearing' = Clearing
      BY <1>6, <2>2 DEF Step, Clearing
    <3> QED
      BY <1>6, <2>2, <3>1 DEF Step, Answers
  <2> QED
    BY <2>1, <2>2
<1>7. ASSUME NEW u \in Users, ClearFoo(u) PROVE SysInv'
  <2>1. Clearing' = Clearing \ {u} /\ u \in Clearing
    BY <1>7 DEF ClearFoo, Step, Clearing
  <2>2. Cardinality(Clearing') = Cardinality(Clearing) - 1
    BY <1>0, <2>1, FS_RemoveElement
  <2>3. Answers'
    BY <1>0, <1>7, <2>1, <2>2 DEF ClearFoo, Step, Answers
  <2>4. SysTypes' /\ OneInside' /\ Directory'
    BY <1>7 DEF ClearFoo, Step
  <2>5. foo => answered = 0
    BY DEF Answers
  <2>6. AnswersAlone'
    <3>1. ASSUME ~tainted' PROVE answered' <= 1 /\ \A v \in Users : at'[v] # "clear"
      BY <1>7, <2>5, <3>1 DEF ClearFoo, Step
    <3> QED
      BY <3>1
  <2> QED
    BY <2>3, <2>4, <2>6
<1>8. CASE UNCHANGED <<callVars, sysVars>>
  BY <1>8 DEF Answers, Clearing
<1>9. ASSUME NEW u \in Users, foo_store(u) PROVE SysInv'
  BY <1>4, <1>5, <1>9 DEF foo_store
<1>10. ASSUME NEW u \in Users, foo_show(u) PROVE SysInv'
  BY <1>4, <1>6, <1>7, <1>10 DEF foo_show
<1> QED
  BY <1>1, <1>2, <1>3, <1>8, <1>9, <1>10 DEF SysNext

\* Each process answers a "hello" in the /sys file once at most, one process
\* alone answers it once, there is no answer without a "hello", and only a load
\* that failed half way leaves its directory (sys/hello.c:18,20,49-54).
THEOREM SysFileIsSound == SysSpec => []SysFileSound
<1>1. CallsInit /\ SysInit => SysInv
  <2> SUFFICES ASSUME CallsInit, SysInit PROVE SysInv
    OBVIOUS
  <2>1. Clearing = {} /\ Cardinality(Clearing) = 0 /\ Cardinality(Users) \in Nat
    BY CallsAssumption, FS_EmptySet, FS_CardinalityType DEF CallsInit, Clearing
  <2>2. SysTypes /\ \A u \in Users : at[u] = "out"
    BY DEF CallsInit, SysInit, SysTypes
  <2>3. Answers
    BY <2>1 DEF SysInit, Answers
  <2>4. OneInside /\ Directory /\ AnswersAlone
    BY <2>2 DEF SysInit, OneInside, Directory, AnswersAlone, Busy
  <2> QED
    BY <2>2, <2>3, <2>4 DEF SysInv
<1>2. SysInv => SysFileSound
  <2> SUFFICES ASSUME SysInv PROVE SysFileSound
    OBVIOUS
  <2>1. Clearing \subseteq Users
    BY DEF Clearing
  <2>2. Cardinality(Clearing) \in Nat /\ Cardinality(Users) \in Nat
    BY <2>1, CallsAssumption, FS_Subset, FS_CardinalityType
  <2>3. ~tainted /\ Busy = {} => answered <= 1
    BY DEF SysInv, AnswersAlone, Busy
  <2> QED
    BY <2>2, <2>3 DEF SysInv, SysTypes, Answers, Directory, SysFileSound
<1> QED
  BY <1>1, <1>2, SysStepInv, PTL DEF SysSpec
----------------------------------------------------------------------------
(* ioctl/RW_module.c *)

\* Places in a text: what pointers hold, and what the characters are named by.
Places == {"buff", "answer", "nul", "junk", "null"} \X Nat

RWTypes ==
  /\ at \in [Users -> {"out", "ready", "get", "while", "load", "put", "reset", "answered",
                       "write", "killed"}]
  /\ msg_buff \subseteq 0..(BufSize - 1)
  /\ off \in [Users -> 0..BufSize]
  /\ msg_ptr \in Places /\ held \in [Users -> Places]
  /\ source \in {"buff", "answer", "null"} /\ asked \in {"buff", "answer", "null"}
  /\ told \in [Users -> Seq(Places)]

\* The pointer stands where the last open, SET or GET has put it.
Stands == msg_ptr = IF source = "null" THEN Null ELSE <<source, 0>>

\* What a GET has given is the beginning of the text it asked for.
Copied(u) ==
  /\ asked \in {"buff", "answer"}
  /\ Len(told[u]) <= GetLength
  /\ \A i \in 1..Len(told[u]) : told[u][i] = <<asked, i - 1>> /\ i - 1 \in Text(asked)

\* What a process relies on while no other one is inside: between its calls the
\* pointer stands, and in a GET it is as far in the text as the process is.
Reading(u) ==
  /\ at[u] \in {"ready", "write", "get", "answered"} => Stands
  /\ at[u] = "get" => told[u] = <<>> /\ asked = source
  /\ at[u] \in {"while", "load", "put"} => msg_ptr = <<asked, Len(told[u])>>
  /\ at[u] \in {"while", "load", "put", "reset", "answered"} => Copied(u)
  /\ at[u] \in {"load", "put"} => Len(told[u]) < GetLength /\ Len(told[u]) \in Text(asked)
  /\ at[u] = "put" => held[u] = msg_ptr
  /\ at[u] \in {"reset", "answered"} =>
       Len(told[u]) = GetLength \/ Len(told[u]) \notin Text(asked)
  /\ at[u] = "killed" => asked = "null"

RWInv ==
  /\ RWTypes
  /\ OneInside
  /\ ~tainted => \A u \in Users : Reading(u)

\* What a pointer points to that has passed nothing but characters.
LEMMA CharAt ==
  ASSUME NEW s \in {"buff", "answer"}, NEW n \in Nat, n < GetLength,
         n = 0 \/ n - 1 \in Text(s), NEW ch \in At(<<s, n>>)
  PROVE  /\ ch = Nul <=> n \notin Text(s)
         /\ ch # Nul => ch = <<s, n>>
<1>1. n < Room(s)
  BY RWAssumption DEF Room, Text
<1>2. <<s, n>> # Nul
  BY DEF Nul
<1> QED
  BY <1>1, <1>2 DEF At

\* Whatever a pointer points to, it is a character.
LEMMA CharsArePlaces ==
  ASSUME NEW p \in Places
  PROVE  At(p) \subseteq Places
<1>1. Nul \in Places /\ <<"junk", 0>> \in Places
  BY DEF Nul, Places
<1> HIDE DEF Places
<1> QED
  BY <1>1 DEF At

\* A process that leaves the device to itself keeps what it has to know.
LEMMA RWStepInv == RWInv /\ [RWNext]_<<callVars, rwVars>> => RWInv'
<1> SUFFICES ASSUME RWInv, [RWNext]_<<callVars, rwVars>> PROVE RWInv'
  OBVIOUS
<1>0. Null \in Places /\ <<"buff", 0>> \in Places /\ <<"answer", 0>> \in Places
  BY DEF Null, Places
<1>00. <<>> \in Seq(Places) /\ BufSize \in Nat /\ AnswerLength \in Nat /\ GetLength \in Nat
       /\ GetLength <= BufSize /\ 0 < GetLength /\ Lengths \subseteq Nat
  BY RWAssumption
<1> USE DEF RWInv, OneInside, Busy, callVars, rwVars
<1>1. CASE RWReload
  <2>1. at' = at /\ \A u \in Users : at[u] = "out"
    BY <1>1 DEF RWReload, RWTypes
  <2>2. RWTypes'
    BY <1>0, <1>1 DEF RWReload, RWTypes
  <2> QED
    BY <1>1, <2>1, <2>2 DEF RWReload, Reading
<1>2. ASSUME NEW u \in Users, my_open(u) PROVE RWInv'
  <2>1. RWTypes' /\ OneInside'
    BY <1>0, <1>2 DEF my_open, Enter, RWTypes
  <2>2. ASSUME ~tainted' PROVE \A v \in Users : at'[v] = (IF v = u THEN "ready" ELSE "out")
    BY <1>2, <2>2 DEF my_open, Enter, RWTypes
  <2>3. Stands'
    BY <1>2 DEF my_open, Stands
  <2> QED
    BY <2>1, <2>2, <2>3 DEF Reading
\* A call that begins: no other process is inside, and the pointer stands.
<1>3. ASSUME NEW u \in Users, NEW label \in {"ready", "get", "write"}, Begin(u, label)
      PROVE  /\ at' = [at EXCEPT ![u] = label] /\ at[u] # "out" /\ tainted' = tainted
             /\ told' \in [Users -> Seq(Places)] /\ told'[u] = <<>>
             /\ asked' \in {"buff", "answer", "null"} /\ (label = "get" => asked' = source)
             /\ at' \in [Users -> {"out", "ready", "get", "while", "load", "put", "reset",
                                   "answered", "write", "killed"}]
             /\ OneInside'
             /\ ~tainted' => Stands /\ \A v \in Users : v # u => at'[v] = "out"
  <2>1. PICK from \in {"ready", "answered"} : Step(u, from, label)
    BY <1>3 DEF Begin
  <2>2. at' = [at EXCEPT ![u] = label] /\ at[u] \in {"ready", "answered"} /\ tainted' = tainted
    BY <2>1 DEF Step
  <2>3. ~tainted => Stands /\ \A v \in Users : v # u => at[v] = "out"
    BY <2>2 DEF Reading
  <2>4. told' = [told EXCEPT ![u] = <<>>] /\ asked' = IF label = "get" THEN source ELSE "null"
    BY <1>3 DEF Begin
  <2> QED
    BY <1>00, <2>2, <2>3, <2>4 DEF RWTypes
<1>4. ASSUME NEW u \in Users, NEW hello \in BOOLEAN, SetMsg(u, hello) PROVE RWInv'
  <2>1. Begin(u, "ready")
    BY <1>4 DEF SetMsg
  <2>2. RWTypes' /\ OneInside'
    BY <1>0, <1>3, <1>4, <2>1 DEF SetMsg, RWTypes
  <2>3. ASSUME ~tainted' PROVE Stands'
    BY <1>3, <1>4, <2>1, <2>3 DEF SetMsg, Stands
  <2>4. at'[u] = "ready"
    BY <1>3, <2>1 DEF RWTypes
  <2> QED
    BY <1>3, <2>1, <2>2, <2>3, <2>4 DEF Reading
<1>5. ASSUME NEW u \in Users, GetMsg(u) PROVE RWInv'
  <2>1. Begin(u, "get")
    BY <1>5 DEF GetMsg
  <2>2. RWTypes' /\ OneInside' /\ at'[u] = "get"
    BY <1>3, <1>5, <2>1 DEF GetMsg, RWTypes
  <2>3. ASSUME ~tainted' PROVE Stands' /\ asked' = source' /\ told'[u] = <<>>
    BY <1>3, <1>5, <2>1, <2>3 DEF GetMsg, Stands
  <2> QED
    BY <1>3, <2>1, <2>2, <2>3 DEF Reading
<1>6. ASSUME NEW u \in Users, NEW len \in Lengths, my_read(u, len) PROVE RWInv'
  <2>1. Begin(u, "ready")
    BY <1>6 DEF my_read
  <2>2. off' \in [Users -> 0..BufSize]
    BY <1>00, <1>6 DEF my_read, Least, RWTypes
  <2>3. RWTypes' /\ OneInside' /\ at'[u] = "ready"
    BY <1>3, <1>6, <2>1, <2>2 DEF my_read, RWTypes
  <2>4. ASSUME ~tainted' PROVE Stands'
    BY <1>3, <1>6, <2>1, <2>4 DEF my_read, Stands
  <2> QED
    BY <1>3, <2>1, <2>3, <2>4 DEF Reading
<1>7. ASSUME NEW u \in Users, ClearBuff(u) PROVE RWInv'
  <2>1. Begin(u, "write")
    BY <1>7 DEF ClearBuff
  <2>2. RWTypes' /\ OneInside' /\ at'[u] = "write"
    BY <1>3, <1>7, <2>1 DEF ClearBuff, RWTypes
  <2>3. ASSUME ~tainted' PROVE Stands'
    BY <1>3, <1>7, <2>1, <2>3 DEF ClearBuff, Stands
  <2> QED
    BY <1>3, <2>1, <2>2, <2>3 DEF Reading
<1>8. ASSUME NEW u \in Users, NEW len \in Lengths, WriteBuff(u, len) PROVE RWInv'
  <2> DEFINE n == IF len > BufSize THEN 0 ELSE Least(len, BufSize - off[u])
  <2>1. n \in Nat /\ off[u] \in Nat /\ off[u] + n <= BufSize
    BY <1>00 DEF RWTypes, Least
  <2>2. /\ msg_buff' = msg_buff \cup off[u]..(off[u] + n - 1)
        /\ off' = [off EXCEPT ![u] = off[u] + n]
        /\ UNCHANGED <<msg_ptr, held, source, asked, told, tainted>>
        /\ at[u] = "write" /\ at' = [at EXCEPT ![u] = "ready"]
    BY <1>8 DEF WriteBuff, Step
  <2> HIDE DEF n
  <2>3. msg_buff' \subseteq 0..(BufSize - 1)
    <3>1. msg_buff \subseteq 0..(BufSize - 1)
      BY DEF RWTypes
    <3>2. off[u]..(off[u] + n - 1) \subseteq 0..(BufSize - 1)
      BY <1>00, <2>1
    <3> QED
      BY <2>2, <3>1, <3>2
  <2>4. off' \in [Users -> 0..BufSize]
    BY <1>00, <2>1, <2>2 DEF RWTypes
  <2>5. RWTypes' /\ OneInside' /\ at'[u] = "ready"
    BY <2>2, <2>3, <2>4 DEF RWTypes
  <2>6. ASSUME ~tainted' PROVE Stands' /\ \A v \in Users : v # u => at'[v] = "out"
    <3>1. Stands
      BY <2>2, <2>6 DEF Reading
    <3> QED
      BY <2>2, <2>6, <3>1 DEF Stands, RWTypes
  <2> QED
    BY <2>5, <2>6 DEF Reading
<1>9. ASSUME NEW u \in Users, my_release(u) PROVE RWInv'
  <2>1. /\ tainted' = tainted /\ at[u] # "out" /\ at' = [at EXCEPT ![u] = "out"]
        /\ off' = [off EXCEPT ![u] = 0] /\ held' = [held EXCEPT ![u] = Null]
        /\ told' = [told EXCEPT ![u] = <<>>] /\ UNCHANGED <<msg_buff, msg_ptr, source, asked>>
    BY <1>9 DEF my_release, Step
  <2>2. RWTypes' /\ OneInside'
    BY <1>0, <1>00, <2>1 DEF RWTypes
  <2>3. ASSUME ~tainted' PROVE \A v \in Users : at'[v] = "out"
    BY <2>1, <2>3 DEF RWTypes
  <2> QED
    BY <2>2, <2>3 DEF Reading
<1>10. ASSUME NEW u \in Users, FirstTest(u) PROVE RWInv'
  <2>1. /\ RWTypes' /\ OneInside' /\ tainted' = tainted /\ UNCHANGED rwVars /\ at[u] = "get"
        /\ at'[u] \in {"killed", "answered", "while"}
    BY <1>10, ZenonT(60) DEF FirstTest, Oops, Step, RWTypes
  <2>2. ASSUME ~tainted' PROVE Reading(u) /\ \A v \in Users : v # u => at'[v] = "out"
    BY <1>10, <2>1, <2>2 DEF FirstTest, Oops, Step, RWTypes
  <2>3. ASSUME ~tainted' PROVE Reading(u)'
    <3>1. Stands /\ asked = source /\ told[u] = <<>> /\ Len(told[u]) = 0
      BY <2>1, <2>2, <2>3 DEF Reading
    <3>2. CASE source = "null"
      <4>1. msg_ptr = Null
        BY <3>1, <3>2 DEF Stands
      <4>2. at'[u] = "killed"
        BY <1>10, <4>1 DEF FirstTest, Oops, Step, RWTypes
      <4> QED
        BY <2>1, <3>1, <3>2, <4>2 DEF Reading
    <3>3. CASE source # "null"
      <4>1. msg_ptr = <<source, 0>> /\ source \in {"buff", "answer"} /\ msg_ptr # Null
        BY <3>1, <3>3 DEF Stands, RWTypes, Null
      <4>2. PICK ch \in At(msg_ptr) : at'[u] = IF ch = Nul THEN "answered" ELSE "while"
        BY <1>10, <4>1 DEF FirstTest, Oops, Step, RWTypes
      <4>3. ch = Nul <=> 0 \notin Text(source)
        BY <1>00, <4>1, CharAt
      <4>4. Copied(u) /\ (Copied(u))' /\ Stands'
        BY <1>00, <2>1, <3>1, <4>1 DEF Copied, Stands, Text
      <4>5. Text(asked)' = Text(asked)
        BY <2>1 DEF Text
      <4> QED
        BY <2>1, <3>1, <4>1, <4>2, <4>3, <4>4, <4>5 DEF Reading
    <3> QED
      BY <3>2, <3>3
  <2> QED
    BY <2>1, <2>2, <2>3 DEF Reading
<1>11. ASSUME NEW u \in Users, While(u) PROVE RWInv'
  <2>1. RWTypes' /\ OneInside' /\ tainted' = tainted /\ UNCHANGED rwVars /\ at[u] = "while"
    BY <1>11, ZenonT(60) DEF While, Oops, Step, RWTypes
  <2>2. ASSUME ~tainted' PROVE Reading(u) /\ \A v \in Users : v # u => at'[v] = "out"
    BY <1>11, <2>1, <2>2 DEF While, Oops, Step, RWTypes
  <2>3. ASSUME ~tainted' PROVE Reading(u)'
    <3>1. /\ msg_ptr = <<asked, Len(told[u])>> /\ Copied(u) /\ Len(told[u]) \in Nat
          /\ asked \in {"buff", "answer"} /\ Len(told[u]) <= GetLength
          /\ Len(told[u]) = 0 \/ Len(told[u]) - 1 \in Text(asked)
      BY <2>1, <2>2, <2>3 DEF Reading, RWTypes, Copied
    <3>2. msg_ptr # Null
      BY <3>1 DEF Null
    <3>3. (Copied(u))' /\ Text(asked)' = Text(asked)
      BY <2>1, <3>1 DEF Copied, Text
    <3>4. CASE Len(told[u]) = GetLength
      <4>1. at'[u] = "reset"
        BY <1>00, <1>11, <3>1, <3>4 DEF While, Oops, Step, RWTypes
      <4> QED
        BY <2>1, <3>3, <3>4, <4>1 DEF Reading
    <3>5. CASE Len(told[u]) < GetLength
      <4>1. PICK ch \in At(msg_ptr) : at'[u] = IF ch = Nul THEN "reset" ELSE "load"
        <5>1. \E ch \in At(msg_ptr) : Step(u, "while", IF ch = Nul THEN "reset" ELSE "load")
          BY <1>00, <1>11, <3>1, <3>2, <3>5 DEF While, Oops
        <5> QED
          BY <5>1 DEF Step, RWTypes
      <4>2. ch = Nul <=> Len(told[u]) \notin Text(asked)
        BY <3>1, <3>5, <4>1, CharAt
      <4> QED
        BY <2>1, <3>1, <3>3, <3>5, <4>1, <4>2 DEF Reading
    <3> QED
      BY <1>00, <3>1, <3>4, <3>5
  <2> QED
    BY <2>1, <2>2, <2>3 DEF Reading
<1>12. ASSUME NEW u \in Users, LoadPtr(u) PROVE RWInv'
  <2>1. RWTypes' /\ OneInside' /\ tainted' = tainted /\ at[u] = "load"
    BY <1>12, ZenonT(60) DEF LoadPtr, Oops, Step, RWTypes
  <2>2. ASSUME ~tainted' PROVE Reading(u) /\ \A v \in Users : v # u => at'[v] = "out"
    BY <1>12, <2>1, <2>2 DEF LoadPtr, Oops, Step, RWTypes
  <2>3. ASSUME ~tainted' PROVE Reading(u)'
    <3>1. msg_ptr # Null /\ Copied(u)
      BY <2>1, <2>2, <2>3 DEF Reading, Copied, Null
    <3>2. /\ held' = [held EXCEPT ![u] = msg_ptr] /\ at'[u] = "put"
          /\ UNCHANGED <<msg_buff, msg_ptr, off, source, asked, told>>
      BY <1>12, <3>1 DEF LoadPtr, Oops, Step, RWTypes
    <3>3. (Copied(u))' /\ Text(asked)' = Text(asked) /\ held'[u] = msg_ptr
      BY <3>1, <3>2 DEF Copied, Text, RWTypes
    <3> QED
      BY <2>1, <2>2, <2>3, <3>2, <3>3 DEF Reading
  <2> QED
    BY <2>1, <2>2, <2>3 DEF Reading
<1>13. ASSUME NEW u \in Users, PutUser(u) PROVE RWInv'
  <2>1. PICK ch \in At(held[u]) : told' = [told EXCEPT ![u] = Append(@, ch)]
    BY <1>13 DEF PutUser
  <2>2. /\ tainted' = tainted /\ at[u] = "put" /\ at' = [at EXCEPT ![u] = "while"]
        /\ UNCHANGED <<msg_buff, off, source, asked>>
        /\ msg_ptr' = <<held[u][1], Least(held[u][2] + 1, Room(held[u][1]))>>
        /\ held' = [held EXCEPT ![u] = Null]
    BY <1>13 DEF PutUser, Step
  <2>3. RWTypes'
    <3>1. ch \in Places /\ told[u] \in Seq(Places)
      BY <2>1, CharsArePlaces DEF RWTypes
    <3>2. told' \in [Users -> Seq(Places)]
      BY <2>1, <3>1 DEF RWTypes
    <3>3. msg_ptr' \in Places
      <4>1. held[u] \in Places
        BY DEF RWTypes
      <4>2. held[u][1] \in {"buff", "answer", "nul", "junk", "null"} /\ held[u][2] \in Nat
        BY <4>1 DEF Places
      <4>3. Least(held[u][2] + 1, Room(held[u][1])) \in Nat
        BY <1>00, <4>2 DEF Least, Room
      <4> QED
        BY <2>2, <4>2, <4>3 DEF Places
    <3>4. held' \in [Users -> Places]
      BY <1>0, <2>2 DEF RWTypes
    <3> QED
      BY <2>2, <3>2, <3>3, <3>4 DEF RWTypes
  <2>4. OneInside'
    BY <2>2 DEF RWTypes
  <2>5. ASSUME ~tainted' PROVE Reading(u) /\ \A v \in Users : v # u => at'[v] = "out"
    BY <2>2, <2>5 DEF RWTypes
  <2>6. ASSUME ~tainted' PROVE Reading(u)'
    <3>1. /\ msg_ptr = <<asked, Len(told[u])>> /\ held[u] = msg_ptr /\ Copied(u)
          /\ Len(told[u]) < GetLength /\ Len(told[u]) \in Text(asked) /\ Len(told[u]) \in Nat
          /\ asked \in {"buff", "answer"}
      BY <2>2, <2>5, <2>6 DEF Reading, RWTypes, Copied
    <3>2. \A i \in 1..Len(told[u]) : told[u][i] = <<asked, i - 1>> /\ i - 1 \in Text(asked)
      BY <3>1 DEF Copied
    <3>3. ch = <<asked, Len(told[u])>>
      <4>1. Len(told[u]) = 0 \/ Len(told[u]) - 1 \in Text(asked)
        BY <3>1, <3>2
      <4>2. ch \in At(<<asked, Len(told[u])>>)
        BY <2>1, <3>1
      <4> QED
        BY <3>1, <4>1, <4>2, CharAt
    <3>4. /\ Len(told'[u]) = Len(told[u]) + 1
          /\ \A i \in 1..Len(told'[u]) : told'[u][i] = IF i <= Len(told[u]) THEN told[u][i] ELSE ch
      BY <2>1 DEF RWTypes
    <3>5. Text(asked)' = Text(asked)
      BY <2>2 DEF Text
    <3>6. ASSUME NEW i \in 1..Len(told'[u])
          PROVE  told'[u][i] = <<asked, i - 1>> /\ i - 1 \in Text(asked)
      <4>1. CASE i <= Len(told[u])
        <5>1. i \in 1..Len(told[u]) /\ told'[u][i] = told[u][i]
          BY <3>1, <3>4, <3>6, <4>1
        <5> QED
          BY <3>2, <5>1
      <4>2. CASE ~(i <= Len(told[u]))
        <5>1. i - 1 = Len(told[u]) /\ told'[u][i] = ch
          BY <3>1, <3>4, <3>6, <4>2
        <5> QED
          BY <3>1, <3>3, <5>1
      <4> QED
        BY <4>1, <4>2
    <3>7. (Copied(u))'
      BY <1>00, <2>2, <3>1, <3>4, <3>5, <3>6 DEF Copied
    <3>8. msg_ptr' = <<asked', Len(told'[u])>>
      <4>1. held[u][1] = asked /\ held[u][2] = Len(told[u])
        BY <3>1
      <4>2. Least(Len(told[u]) + 1, Room(asked)) = Len(told[u]) + 1
        BY <1>00, <3>1 DEF Least, Room, Text
      <4> QED
        BY <2>2, <3>4, <4>1, <4>2
    <3>9. at'[u] = "while"
      BY <2>2 DEF RWTypes
    <3> QED
      BY <3>7, <3>8, <3>9 DEF Reading
  <2> QED
    BY <2>3, <2>4, <2>5, <2>6 DEF Reading
<1>14. ASSUME NEW u \in Users, ResetPtr(u) PROVE RWInv'
  <2>1. /\ RWTypes' /\ OneInside' /\ tainted' = tainted /\ at[u] = "reset"
        /\ at'[u] = "answered" /\ UNCHANGED <<msg_buff, asked, told>> /\ Stands'
    BY <1>0, <1>14 DEF ResetPtr, Step, RWTypes, Stands
  <2>2. ASSUME ~tainted' PROVE Reading(u) /\ \A v \in Users : v # u => at'[v] = "out"
    BY <1>14, <2>1, <2>2 DEF ResetPtr, Step, RWTypes
  <2>3. ASSUME ~tainted' PROVE Reading(u)'
    <3>1. Copied(u) /\ (Len(told[u]) = GetLength \/ Len(told[u]) \notin Text(asked))
      BY <2>1, <2>2, <2>3 DEF Reading
    <3>2. (Copied(u))' /\ Text(asked)' = Text(asked)
      BY <2>1, <3>1 DEF Copied, Text
    <3> QED
      BY <2>1, <3>1, <3>2 DEF Reading
  <2> QED
    BY <2>1, <2>2, <2>3 DEF Reading
<1>15. CASE UNCHANGED <<callVars, rwVars>>
  BY <1>15 DEF RWTypes, Reading, Stands, Copied, Text
<1> QED
  BY <1>1, <1>2, <1>4, <1>5, <1>6, <1>7, <1>8, <1>9, <1>10, <1>11, <1>12, <1>13, <1>14, <1>15
     DEF RWNext, device_read

\* A process that has the device for itself is ended by a NULL in msg_ptr only
\* when it asks again after an answer, without a new "hello", and never by what
\* others did before (RW_module.c:63,73); every answer is the beginning of the
\* text it chose.
THEOREM RWAlone == RWSpec => []AloneAnswered
<1>1. CallsInit /\ RWInit => RWInv
  <2> SUFFICES ASSUME CallsInit, RWInit PROVE RWInv
    OBVIOUS
  <2>1. RWTypes /\ \A u \in Users : at[u] = "out"
    <3>1. Null \in Places
      BY DEF Null, Places
    <3> QED
      BY <3>1, RWAssumption DEF CallsInit, RWInit, RWTypes
  <2> QED
    BY <2>1 DEF RWInv, OneInside, Busy, Reading
<1>2. RWInv => AloneAnswered
  BY DEF RWInv, Reading, Copied, AloneAnswered
<1> QED
  BY <1>1, <1>2, RWStepInv, PTL DEF RWSpec
----------------------------------------------------------------------------
(* block_device/main.c: the resources *)

Resources == {"major", "dev", "buffer", "tags", "queue", "disk", "live"}
Used == {"dev", "buffer", "tags", "queue", "disk"}

\* What a load may hold when its next call is made.
Stages ==
  {{}, {"major"}, {"major", "dev"}, {"major", "dev", "buffer"},
   {"major", "dev", "buffer", "tags"}, {"major", "dev", "buffer", "tags", "queue"},
   {"major", "dev", "buffer", "tags", "queue", "disk"}}

\* What is held in each phase.  The disk is live only while all is there, and
\* requests are under way only while all they use is.
Held ==
  /\ phase \in {"out", "loading", "loaded", "removing", "unregister"}
  /\ has \subseteq Resources
  /\ phase = "out" => has = {}
  /\ phase = "loading" => has \in Stages /\ Quiet
  /\ phase = "loaded" => has = Resources
  /\ phase = "removing" => {"major", "dev"} \subseteq has
  /\ phase = "unregister" => has = {"major"}
  /\ "live" \in has => has = Resources
  /\ ~Quiet => Used \subseteq has

\* A set with one element more.
LEMMA OneMore ==
  ASSUME NEW S, IsFiniteSet(S), NEW x, x \notin S, NEW T, T = S \cup {x}
  PROVE  IsFiniteSet(T) /\ Cardinality(T) = Cardinality(S) + 1
BY FS_AddElement

\* How many resources there are at each stage.
LEMMA StageSizes ==
  /\ Cardinality({}) = 0
  /\ Cardinality({"major"}) = 1
  /\ Cardinality({"major", "dev"}) = 2
  /\ Cardinality({"major", "dev", "buffer"}) = 3
  /\ Cardinality({"major", "dev", "buffer", "tags"}) = 4
  /\ Cardinality({"major", "dev", "buffer", "tags", "queue"}) = 5
  /\ Cardinality({"major", "dev", "buffer", "tags", "queue", "disk"}) = 6
  /\ Cardinality(Resources) = 7
<1>1. IsFiniteSet({}) /\ Cardinality({}) = 0
  BY FS_EmptySet
<1>2. IsFiniteSet({"major"}) /\ Cardinality({"major"}) = 1
  <2>1. "major" \notin {} /\ {"major"} = {} \cup {"major"}
    OBVIOUS
  <2>2. Cardinality({"major"}) = Cardinality({}) + 1 /\ IsFiniteSet({"major"})
    BY <1>1, <2>1, OneMore
  <2> QED
    BY <1>1, <2>2
<1>3. IsFiniteSet({"major", "dev"}) /\ Cardinality({"major", "dev"}) = 2
  <2>1. "dev" \notin {"major"} /\ {"major", "dev"} = {"major"} \cup {"dev"}
    OBVIOUS
  <2>2. Cardinality({"major", "dev"}) = Cardinality({"major"}) + 1 /\ IsFiniteSet({"major", "dev"})
    BY <1>2, <2>1, OneMore
  <2> QED
    BY <1>2, <2>2
<1>4. IsFiniteSet({"major", "dev", "buffer"}) /\ Cardinality({"major", "dev", "buffer"}) = 3
  <2>1. "buffer" \notin {"major", "dev"} /\ {"major", "dev", "buffer"} = {"major", "dev"} \cup {"buffer"}
    OBVIOUS
  <2>2. Cardinality({"major", "dev", "buffer"}) = Cardinality({"major", "dev"}) + 1 /\ IsFiniteSet({"major", "dev", "buffer"})
    BY <1>3, <2>1, OneMore
  <2> QED
    BY <1>3, <2>2
<1>5. IsFiniteSet({"major", "dev", "buffer", "tags"}) /\ Cardinality({"major", "dev", "buffer", "tags"}) = 4
  <2>1. "tags" \notin {"major", "dev", "buffer"} /\ {"major", "dev", "buffer", "tags"} = {"major", "dev", "buffer"} \cup {"tags"}
    OBVIOUS
  <2>2. Cardinality({"major", "dev", "buffer", "tags"}) = Cardinality({"major", "dev", "buffer"}) + 1 /\ IsFiniteSet({"major", "dev", "buffer", "tags"})
    BY <1>4, <2>1, OneMore
  <2> QED
    BY <1>4, <2>2
<1>6. IsFiniteSet({"major", "dev", "buffer", "tags", "queue"}) /\ Cardinality({"major", "dev", "buffer", "tags", "queue"}) = 5
  <2>1. "queue" \notin {"major", "dev", "buffer", "tags"} /\ {"major", "dev", "buffer", "tags", "queue"} = {"major", "dev", "buffer", "tags"} \cup {"queue"}
    OBVIOUS
  <2>2. Cardinality({"major", "dev", "buffer", "tags", "queue"}) = Cardinality({"major", "dev", "buffer", "tags"}) + 1 /\ IsFiniteSet({"major", "dev", "buffer", "tags", "queue"})
    BY <1>5, <2>1, OneMore
  <2> QED
    BY <1>5, <2>2
<1>7. IsFiniteSet({"major", "dev", "buffer", "tags", "queue", "disk"}) /\ Cardinality({"major", "dev", "buffer", "tags", "queue", "disk"}) = 6
  <2>1. "disk" \notin {"major", "dev", "buffer", "tags", "queue"} /\ {"major", "dev", "buffer", "tags", "queue", "disk"} = {"major", "dev", "buffer", "tags", "queue"} \cup {"disk"}
    OBVIOUS
  <2>2. Cardinality({"major", "dev", "buffer", "tags", "queue", "disk"}) = Cardinality({"major", "dev", "buffer", "tags", "queue"}) + 1 /\ IsFiniteSet({"major", "dev", "buffer", "tags", "queue", "disk"})
    BY <1>6, <2>1, OneMore
  <2> QED
    BY <1>6, <2>2
<1>8. IsFiniteSet({"major", "dev", "buffer", "tags", "queue", "disk", "live"}) /\ Cardinality({"major", "dev", "buffer", "tags", "queue", "disk", "live"}) = 7
  <2>1. "live" \notin {"major", "dev", "buffer", "tags", "queue", "disk"} /\ {"major", "dev", "buffer", "tags", "queue", "disk", "live"} = {"major", "dev", "buffer", "tags", "queue", "disk"} \cup {"live"}
    OBVIOUS
  <2>2. Cardinality({"major", "dev", "buffer", "tags", "queue", "disk", "live"}) = Cardinality({"major", "dev", "buffer", "tags", "queue", "disk"}) + 1 /\ IsFiniteSet({"major", "dev", "buffer", "tags", "queue", "disk", "live"})
    BY <1>7, <2>1, OneMore
  <2> QED
    BY <1>7, <2>2
<1> QED
  BY <1>1, <1>2, <1>3, <1>4, <1>5, <1>6, <1>7, <1>8 DEF Resources

\* The call that a load makes at each stage, and where it leads.
LEMMA NextStage ==
  ASSUME has \in Stages
  PROVE  LET r == LoadOrder[Cardinality(has) + 1]
         IN  /\ r # "live" => has \cup {r} \in Stages
             /\ r = "live" => has \cup {r} = Resources
             /\ r \in Resources
<1>1. CASE has = {}
  <2>1. LoadOrder[Cardinality(has) + 1] = "major"
    BY <1>1, StageSizes DEF LoadOrder
  <2>2. has \cup {"major"} = {"major"}
    BY <1>1
  <2> QED
    BY <2>1, <2>2 DEF Stages, Resources
<1>2. CASE has = {"major"}
  <2>1. LoadOrder[Cardinality(has) + 1] = "dev"
    BY <1>2, StageSizes DEF LoadOrder
  <2>2. has \cup {"dev"} = {"major", "dev"}
    BY <1>2
  <2> QED
    BY <2>1, <2>2 DEF Stages, Resources
<1>3. CASE has = {"major", "dev"}
  <2>1. LoadOrder[Cardinality(has) + 1] = "buffer"
    BY <1>3, StageSizes DEF LoadOrder
  <2>2. has \cup {"buffer"} = {"major", "dev", "buffer"}
    BY <1>3
  <2> QED
    BY <2>1, <2>2 DEF Stages, Resources
<1>4. CASE has = {"major", "dev", "buffer"}
  <2>1. LoadOrder[Cardinality(has) + 1] = "tags"
    BY <1>4, StageSizes DEF LoadOrder
  <2>2. has \cup {"tags"} = {"major", "dev", "buffer", "tags"}
    BY <1>4
  <2> QED
    BY <2>1, <2>2 DEF Stages, Resources
<1>5. CASE has = {"major", "dev", "buffer", "tags"}
  <2>1. LoadOrder[Cardinality(has) + 1] = "queue"
    BY <1>5, StageSizes DEF LoadOrder
  <2>2. has \cup {"queue"} = {"major", "dev", "buffer", "tags", "queue"}
    BY <1>5
  <2> QED
    BY <2>1, <2>2 DEF Stages, Resources
<1>6. CASE has = {"major", "dev", "buffer", "tags", "queue"}
  <2>1. LoadOrder[Cardinality(has) + 1] = "disk"
    BY <1>6, StageSizes DEF LoadOrder
  <2>2. has \cup {"disk"} = {"major", "dev", "buffer", "tags", "queue", "disk"}
    BY <1>6
  <2> QED
    BY <2>1, <2>2 DEF Stages, Resources
<1>7. CASE has = {"major", "dev", "buffer", "tags", "queue", "disk"}
  <2>1. LoadOrder[Cardinality(has) + 1] = "live"
    BY <1>7, StageSizes DEF LoadOrder
  <2>2. has \cup {"live"} = {"major", "dev", "buffer", "tags", "queue", "disk", "live"}
    BY <1>7
  <2> QED
    BY <2>1, <2>2 DEF Stages, Resources
<1> QED
  BY <1>1, <1>2, <1>3, <1>4, <1>5, <1>6, <1>7 DEF Stages

\* Loading and removing keep the resources in order.
LEMMA ModuleStepHeld ==
  ASSUME Held, ModuleNext
  PROVE  Held'
<1> USE DEF Held, modVars
<1>1. CASE Insmod
  BY <1>1 DEF Insmod, Quiet, Used, Stages
<1>2. CASE Acquire
  <2> DEFINE r == LoadOrder[Cardinality(has) + 1]
  <2>1. /\ r # "live" => has \cup {r} \in Stages
        /\ r = "live" => has \cup {r} = Resources
        /\ r \in Resources
    BY <1>2, NextStage DEF Acquire
  <2>2. has' = has \cup {r} /\ phase' = (IF r = "live" THEN "loaded" ELSE "loading") /\ cpc' = cpc
    BY <1>2 DEF Acquire, ioVars
  <2> HIDE DEF r
  <2>3. Quiet'
    BY <1>2, <2>2 DEF Acquire, Quiet
  <2>4. "live" \in has' => r = "live"
    BY <1>2, <2>2 DEF Acquire, Stages
  <2> QED
    BY <2>1, <2>2, <2>3, <2>4
<1>3. CASE AcquireFails
  <2>1. has \in Stages /\ Quiet /\ has' = has /\ cpc' = cpc
    BY <1>3 DEF AcquireFails, ioVars
  <2>2. /\ has = {} => phase' = "out"
        /\ has = {"major"} => phase' = "unregister"
        /\ has # {} /\ has # {"major"} => phase' = "removing"
    BY <1>3 DEF AcquireFails
  <2>3. has # {} /\ has # {"major"} => {"major", "dev"} \subseteq has
    BY <2>1 DEF Stages
  <2> QED
    BY <2>1, <2>2, <2>3 DEF Quiet
<1>4. CASE Rmmod
  BY <1>4 DEF Rmmod, ioVars, Quiet, Resources
<1>5. CASE ReleaseNext
  <2>1. PICK i \in 1..6 :
          /\ RemoveOrder[i] \in has
          /\ \A j \in 1..(i - 1) : RemoveOrder[j] \notin has
          /\ RemoveOrder[i] = "queue" => Quiet
          /\ has' = has \ {RemoveOrder[i]}
          /\ phase' = IF i = 6 THEN "unregister" ELSE phase
    BY <1>5 DEF ReleaseNext, RemoveOrder
  <2>2. phase = "removing" /\ cpc' = cpc /\ Quiet' = Quiet
    BY <1>5 DEF ReleaseNext, ioVars, Quiet
  <2>3. CASE i = 1
    BY <2>1, <2>2, <2>3 DEF RemoveOrder, Used, Resources
  <2>4. CASE i = 2
    BY <2>1, <2>2, <2>4 DEF RemoveOrder, Used, Resources
  <2>5. CASE i \in 3..5
    <3>1. "live" \notin has /\ "queue" \notin has
      BY <2>1, <2>5 DEF RemoveOrder
    <3>2. RemoveOrder[i] \in {"tags", "disk", "buffer"}
      BY <2>5 DEF RemoveOrder
    <3> QED
      BY <2>1, <2>2, <2>5, <3>1, <3>2 DEF Used
  <2>6. CASE i = 6
    <3>1. has' \subseteq {"major"} /\ "major" \in has'
      BY <2>1, <2>2, <2>6 DEF RemoveOrder, Resources
    <3>2. "queue" \notin has
      BY <2>1, <2>6 DEF RemoveOrder
    <3> QED
      BY <2>1, <2>2, <2>6, <3>1, <3>2 DEF Used
  <2> QED
    BY <2>3, <2>4, <2>5, <2>6
<1>6. CASE Unregister
  BY <1>6 DEF Unregister, ioVars, Quiet, Used
<1> QED
  BY <1>1, <1>2, <1>3, <1>4, <1>5, <1>6 DEF ModuleNext

\* A request begins only on a live disk, and none begins in the other steps.
LEMMA RequestStepHeld ==
  ASSUME Held, NEW c \in Cpus, _queue_rq(c) \/ \E r \in Requests : Submit(c, r)
  PROVE  Held'
<1>1. UNCHANGED <<phase, has>>
  BY DEF _queue_rq, Segment, Fetch, Store, EndRequest, Submit, modVars
<1>2. CASE \E r \in Requests : Submit(c, r)
  BY <1>1, <1>2 DEF Submit, Held, Resources, Used, Stages
<1>3. CASE _queue_rq(c)
  <2>1. ~Quiet
    BY <1>3 DEF _queue_rq, Segment, Fetch, Store, EndRequest, Quiet
  <2> QED
    BY <1>1, <2>1 DEF Held
<1> QED
  BY <1>2, <1>3

\* The resources are in order in every state.
LEMMA AlwaysHeld == Spec => []Held
<1>1. Init => Held
  BY DEF Init, Held, Quiet
<1>2. Held /\ [Next]_vars => Held'
  <2> SUFFICES ASSUME Held, [Next]_vars PROVE Held'
    OBVIOUS
  <2>1. CASE UNCHANGED vars
    BY <2>1 DEF Held, Quiet, vars, modVars, ioVars
  <2> QED
    BY <2>1, ModuleStepHeld, RequestStepHeld DEF Next
<1> QED
  BY <1>1, <1>2, PTL DEF Spec

\* A request under way finds what it uses, also while the module is removed
\* (main.c:76,89,91).
THEOREM BlockRequestsSafe == Spec => []RequestsSafe
<1>1. Held => RequestsSafe
  BY DEF Held, RequestsSafe, Used
<1> QED
  BY <1>1, AlwaysHeld, PTL

\* Nothing stays behind, however far a load got before it failed and after
\* every removal (main.c:236-259).
THEOREM BlockNothingLeaks == Spec => []NothingLeaks
<1>1. Held => NothingLeaks
  <2>1. Cardinality(Resources) = Len(LoadOrder)
    BY StageSizes DEF LoadOrder
  <2> QED
    BY <2>1 DEF Held, NothingLeaks, Used
<1> QED
  BY <1>1, AlwaysHeld, PTL
----------------------------------------------------------------------------
(* block_device/main.c: the counter *)

\* Quotient and rest.
LEMMA QuotientAndRest ==
  ASSUME NEW M \in Nat \ {0}, NEW a \in Int
  PROVE  a \div M \in Int /\ a % M \in 0..(M - 1) /\ a = M * (a \div M) + (a % M)
OBVIOUS

\* A rest is determined by its number.
LEMMA OneRest ==
  ASSUME NEW M \in Nat \ {0}, NEW r \in 0..(M - 1), NEW s \in 0..(M - 1),
         NEW p \in Int, NEW q \in Int, M * p + r = M * q + s
  PROVE  r = s
<1>1. M * (p - q) = s - r
  OBVIOUS
<1>2. CASE p - q >= 1
  <2>1. M * (p - q) >= M
    BY <1>2
  <2> QED
    BY <1>1, <2>1
<1>3. CASE p - q <= -1
  <2>1. M * (p - q) <= - M
    BY <1>3
  <2> QED
    BY <1>1, <2>1
<1>4. CASE p - q = 0
  <2>1. M * (p - q) = 0
    BY <1>4
  <2> QED
    BY <1>1, <2>1
<1> QED
  BY <1>2, <1>3, <1>4

\* Numbers that differ by a multiple have the same rest.
LEMMA SameRest ==
  ASSUME NEW M \in Nat \ {0}, NEW a \in Int, NEW b \in Int, NEW k \in Int, a = b + M * k
  PROVE  a % M = b % M
<1> DEFINE p == a \div M
           q == b \div M
           r == a % M
           s == b % M
<1>1. p \in Int /\ r \in 0..(M - 1) /\ a = M * p + r
  BY QuotientAndRest
<1>2. q \in Int /\ s \in 0..(M - 1) /\ b = M * q + s
  BY QuotientAndRest
<1> HIDE DEF p, q, r, s
<1>3. M * p + r = M * (q + k) + s /\ q + k \in Int
  BY <1>1, <1>2
<1>4. r = s
  BY <1>1, <1>2, <1>3, OneRest
<1> QED
  BY <1>4 DEF r, s

\* Counting on from a rest: an unsigned short that overflows or wraps below 0
\* stays the rest of the number it stands for.
LEMMA CountOn ==
  ASSUME NEW M \in Nat \ {0}, NEW a \in Int, NEW d \in Int
  PROVE  ((a % M) + d) % M = (a + d) % M
<1> DEFINE r == a % M
           q == a \div M
<1>1. r \in Int /\ q \in Int /\ a = M * q + r
  BY QuotientAndRest
<1> HIDE DEF r, q
<1>2. r + d = (a + d) + M * (-q) /\ -q \in Int /\ r + d \in Int /\ a + d \in Int
  BY <1>1
<1>3. (r + d) % M = (a + d) % M
  BY <1>2, SameRest
<1> QED
  BY <1>3 DEF r

RequestTypes ==
  /\ TypeOK
  /\ rq \in [Cpus -> [write : BOOLEAN, pos : 0..(Capacity - 1), segs : Seq(Segments)]]
  /\ hellos \in Nat /\ greets \in Nat
  /\ \A c \in Cpus : cpc[c] \in {"fetch", "store"} => rq[c].segs # <<>>

\* What the access under way of a CPU still has to add to the counter.
Due(c) == IF cpc[c] \notin {"fetch", "store"} THEN 0 ELSE IF rq[c].write THEN 1 ELSE -1

\* The counter as long as requests come one after the other: with what is due
\* it is the number of the hellos not answered.
CountsRight ==
  ~raced =>
    /\ greets <= hellos
    /\ \A b, c \in Cpus : cpc[b] # "idle" /\ cpc[c] # "idle" => b = c
    /\ Quiet => counter = (hellos - greets) % CounterMod
    /\ \A c \in Cpus : cpc[c] # "idle" => counter = (hellos - greets - Due(c)) % CounterMod
    /\ \A c \in Cpus : cpc[c] = "store" => reg[c] = counter

CounterInv == RequestTypes /\ CountsRight

\* Two accesses of one CPU count right; of two CPUs nothing is said.
LEMMA CounterStepInv == Held /\ CounterInv /\ [Next]_vars => CounterInv'
<1> SUFFICES ASSUME Held, CounterInv, [Next]_vars PROVE CounterInv'
  OBVIOUS
<1>0. /\ CounterMod \in Nat \ {0} /\ Capacity \in Nat \ {0}
      /\ 0 \in 0..(CounterMod - 1) /\ 0 % CounterMod = 0
      /\ \A a \in Int : a % CounterMod \in 0..(CounterMod - 1)
  BY BlockAssumption
<1> USE DEF CounterInv
<1>1. CASE ModuleNext
  <2>0. ModuleNext => (has' \subseteq Resources /\ phase' \in {"out", "loading", "loaded", "removing", "unregister"})
    BY ModuleStepHeld DEF Held
  <2>1. CASE Insmod
    <3>1. Quiet /\ UNCHANGED <<has, cpc, rq, reg>>
      BY <2>1 DEF Insmod, Held, Used
    <3>2. /\ counter' = 0 /\ hellos' = 0 /\ greets' = 0
          /\ data' = [s \in 0..(Capacity - 1) |-> "junk"]
      BY <2>1 DEF Insmod
    <3>3. TypeOK'
      BY <1>0, <1>1, <2>0, <3>1, <3>2 DEF RequestTypes, TypeOK, LoadOrder, Resources
    <3>4. RequestTypes'
      BY <3>1, <3>2, <3>3 DEF RequestTypes
    <3>5. CountsRight'
      <4>1. hellos' - greets' = 0
        BY <3>2
      <4>2. counter' = (hellos' - greets') % CounterMod /\ greets' <= hellos'
        BY <1>0, <3>2, <4>1
      <4> QED
        BY <3>1, <4>2 DEF CountsRight, Quiet
    <3> QED
      BY <3>4, <3>5
  <2>2. CASE UNCHANGED ioVars
    <3>1. RequestTypes'
      <4>1. TypeOK'
        BY <1>1, <2>0, <2>2 DEF RequestTypes, TypeOK, LoadOrder, Resources, ioVars
      <4> QED
        BY <2>2, <4>1 DEF RequestTypes, ioVars
    <3>2. CountsRight'
      BY <2>2 DEF CountsRight, Quiet, Due, ioVars
    <3> QED
      BY <3>1, <3>2
  <2> QED
    BY <1>1, <2>1, <2>2 DEF ModuleNext, Acquire, AcquireFails, Rmmod, ReleaseNext, Unregister
<1>2. ASSUME NEW c \in Cpus, NEW r \in Requests, Submit(c, r) PROVE CounterInv'
  <2>1. r \in [write : BOOLEAN, pos : 0..(Capacity - 1), segs : Seq(Segments)]
    BY BlockAssumption DEF Requests
  <2>2. RequestTypes'
    BY <1>2, <2>1 DEF Submit, RequestTypes, TypeOK, modVars
  <2>3. ASSUME ~raced' PROVE Quiet /\ ~raced
    BY <1>2, <2>3 DEF Submit
  <2>4. /\ cpc' = [cpc EXCEPT ![c] = "segment"] /\ UNCHANGED <<counter, hellos, greets, reg>>
        /\ cpc \in [Cpus -> {"idle", "segment", "fetch", "store"}]
    BY <1>2 DEF Submit, RequestTypes, TypeOK
  <2>5. Due(c)' = 0 /\ hellos - greets - 0 = hellos - greets
    BY <2>4 DEF Due, RequestTypes
  <2>6. CountsRight'
    BY <2>3, <2>4, <2>5 DEF CountsRight, Quiet
  <2> QED
    BY <2>2, <2>6
<1>3. ASSUME NEW c \in Cpus, Segment(c) PROVE CounterInv'
  <2> DEFINE r == rq[c]
             s == Head(r.segs)
             counts == IF r.write THEN s.hello ELSE counter # 0
  <2>1. /\ cpc[c] = "segment" /\ UNCHANGED <<phase, has, counter, reg, raced>>
        /\ r \in [write : BOOLEAN, pos : 0..(Capacity - 1), segs : Seq(Segments)]
        /\ r.segs # <<>> /\ Tail(r.segs) \in Seq(Segments)
        /\ cpc \in [Cpus -> {"idle", "segment", "fetch", "store"}]
        /\ hellos' = IF r.write /\ counts THEN hellos + 1 ELSE hellos
        /\ greets' = IF ~r.write /\ counts THEN greets + 1 ELSE greets
        /\ data' \in [0..(Capacity - 1) -> {"junk", "hello"}]
    BY <1>3 DEF Segment, RequestTypes, TypeOK, modVars
  <2>2. /\ counts => cpc' = [cpc EXCEPT ![c] = "fetch"] /\ rq' = rq
        /\ ~counts => rq' = [rq EXCEPT ![c].segs = Tail(@)] /\ cpc' = cpc
    BY <1>3 DEF Segment
  <2> HIDE DEF counts, s
  <2>3. RequestTypes'
    <3>1. TypeOK'
      BY <2>1, <2>2 DEF RequestTypes, TypeOK
    <3>2. rq' \in [Cpus -> [write : BOOLEAN, pos : 0..(Capacity - 1), segs : Seq(Segments)]]
      <4>1. CASE counts
        BY <2>2, <4>1 DEF RequestTypes
      <4>2. CASE ~counts
        <5>1. rq' = [rq EXCEPT ![c] = [write |-> r.write, pos |-> r.pos, segs |-> Tail(r.segs)]]
          BY <2>1, <2>2, <4>2 DEF RequestTypes
        <5> QED
          BY <2>1, <5>1 DEF RequestTypes
      <4> QED
        BY <4>1, <4>2
    <3>3. hellos' \in Nat /\ greets' \in Nat
      BY <2>1 DEF RequestTypes
    <3>4. \A b \in Cpus : cpc'[b] \in {"fetch", "store"} => rq'[b].segs # <<>>
      BY <2>1, <2>2 DEF RequestTypes
    <3> QED
      BY <3>1, <3>2, <3>3, <3>4 DEF RequestTypes
  <2>4. ASSUME ~raced
        PROVE  /\ greets' <= hellos'
               /\ counter = (hellos' - greets' - Due(c)') % CounterMod
    <3>1. Due(c) = 0 /\ greets <= hellos /\ counter = (hellos - greets - Due(c)) % CounterMod
      BY <2>1, <2>4 DEF Due, CountsRight
    <3>2. counter = (hellos - greets) % CounterMod
      BY <3>1 DEF RequestTypes
    <3>3. counts /\ ~r.write => hellos # greets
      BY <1>0, <3>2 DEF counts, RequestTypes
    <3>4. Due(c)' = IF ~counts THEN 0 ELSE IF r.write THEN 1 ELSE -1
      BY <2>1, <2>2 DEF Due
    <3>5. hellos' - greets' - Due(c)' = hellos - greets /\ greets' <= hellos'
      <4> HIDE DEF r
      <4>1. hellos \in Nat /\ greets \in Nat
        BY DEF RequestTypes
      <4>2. CASE ~counts
        BY <2>1, <3>1, <3>4, <4>1, <4>2
      <4>3. CASE counts /\ r.write
        BY <2>1, <3>1, <3>4, <4>1, <4>3
      <4>4. CASE counts /\ ~r.write
        <5>1. greets' = greets + 1 /\ hellos' = hellos /\ greets < hellos /\ Due(c)' = -1
          BY <2>1, <3>1, <3>3, <3>4, <4>1, <4>4
        <5> QED
          BY <4>1, <5>1
      <4> QED
        BY <4>2, <4>3, <4>4
    <3> QED
      BY <3>2, <3>5
  <2>5. CountsRight'
    <3>1. ASSUME ~raced PROVE \A b \in Cpus : b # c => cpc'[b] = "idle"
      BY <2>1, <2>2, <3>1 DEF CountsRight
    <3>2. cpc'[c] \in {"segment", "fetch"}
      BY <2>1, <2>2
    <3> QED
      BY <2>1, <2>4, <3>1, <3>2 DEF CountsRight, Quiet
  <2> QED
    BY <2>3, <2>5
<1>4. ASSUME NEW c \in Cpus, Fetch(c) PROVE CounterInv'
  <2>1. RequestTypes'
    BY <1>4 DEF Fetch, RequestTypes, TypeOK, modVars
  <2>2. /\ cpc' = [cpc EXCEPT ![c] = "store"] /\ reg' = [reg EXCEPT ![c] = counter]
        /\ cpc[c] = "fetch" /\ UNCHANGED <<counter, hellos, greets, rq, raced>>
        /\ cpc \in [Cpus -> {"idle", "segment", "fetch", "store"}] /\ DOMAIN reg = Cpus
    BY <1>4 DEF Fetch, RequestTypes, TypeOK
  <2>3. \A b \in Cpus : Due(b)' = Due(b)
    BY <2>2 DEF Due
  <2>4. CountsRight'
    BY <2>2, <2>3 DEF CountsRight, Quiet
  <2> QED
    BY <2>1, <2>4
<1>5. ASSUME NEW c \in Cpus, Store(c) PROVE CounterInv'
  <2>1. /\ cpc' = [cpc EXCEPT ![c] = "segment"] /\ rq' = [rq EXCEPT ![c].segs = Tail(@)]
        /\ cpc[c] = "store" /\ UNCHANGED <<hellos, greets, reg, raced>>
        /\ cpc \in [Cpus -> {"idle", "segment", "fetch", "store"}]
        /\ counter' = (IF rq[c].write THEN reg[c] + 1 ELSE reg[c] - 1) % CounterMod
    BY <1>5 DEF Store, RequestTypes, TypeOK
  <2>2. RequestTypes'
    <3>1. rq[c].segs \in Seq(Segments) /\ rq[c].segs # <<>> /\ Tail(rq[c].segs) \in Seq(Segments)
      BY <2>1 DEF RequestTypes
    <3>2. rq' \in [Cpus -> [write : BOOLEAN, pos : 0..(Capacity - 1), segs : Seq(Segments)]]
      BY <2>1, <3>1 DEF RequestTypes
    <3>3. counter' \in 0..(CounterMod - 1)
      BY <1>0, <2>1, SMTT(60) DEF RequestTypes, TypeOK
    <3>4. TypeOK'
      BY <1>5, <2>1, <3>3 DEF Store, RequestTypes, TypeOK, modVars
    <3> QED
      BY <2>1, <3>2, <3>4 DEF RequestTypes
  <2>3. ASSUME ~raced PROVE counter' = (hellos - greets) % CounterMod
    <3> DEFINE a == hellos - greets - Due(c)
    <3>1. a \in Int /\ Due(c) \in Int /\ a + Due(c) = hellos - greets
      BY DEF RequestTypes, Due
    <3>2. reg[c] = a % CounterMod
      BY <2>1, <2>3 DEF CountsRight
    <3>3. counter' = (reg[c] + Due(c)) % CounterMod
      BY <2>1 DEF Due, RequestTypes, TypeOK
    <3> HIDE DEF a
    <3>4. counter' = (a + Due(c)) % CounterMod
      BY <1>0, <3>1, <3>2, <3>3, CountOn
    <3> QED
      BY <3>1, <3>4
  <2>4. Due(c)' = 0 /\ hellos - greets - 0 = hellos - greets
    BY <2>1 DEF Due, RequestTypes
  <2>5. CountsRight'
    BY <2>1, <2>3, <2>4 DEF CountsRight, Quiet
  <2> QED
    BY <2>2, <2>5
<1>6. ASSUME NEW c \in Cpus, EndRequest(c) PROVE CounterInv'
  <2>1. /\ cpc' = [cpc EXCEPT ![c] = "idle"] /\ cpc[c] = "segment"
        /\ UNCHANGED <<counter, hellos, greets, reg, raced>>
        /\ cpc \in [Cpus -> {"idle", "segment", "fetch", "store"}]
    BY <1>6 DEF EndRequest, RequestTypes, TypeOK
  <2>2. RequestTypes'
    <3>1. NoRequest \in [write : BOOLEAN, pos : 0..(Capacity - 1), segs : Seq(Segments)]
      BY <1>0 DEF NoRequest
    <3> QED
      BY <1>6, <2>1, <3>1 DEF EndRequest, RequestTypes, TypeOK, modVars
  <2>3. Due(c) = 0 /\ hellos - greets - 0 = hellos - greets
    BY <2>1 DEF Due, RequestTypes
  <2>4. CountsRight'
    <3>1. ASSUME ~raced PROVE (\A b \in Cpus : cpc'[b] = "idle") /\ counter = (hellos - greets) % CounterMod
      BY <2>1, <2>3, <3>1 DEF CountsRight
    <3> QED
      BY <2>1, <3>1 DEF CountsRight
  <2> QED
    BY <2>2, <2>4
<1>7. CASE UNCHANGED vars
  BY <1>7 DEF RequestTypes, TypeOK, CountsRight, Quiet, Due, vars, modVars, ioVars
<1> QED
  BY <1>1, <1>2, <1>3, <1>4, <1>5, <1>6, <1>7 DEF Next, _queue_rq

\* At the start nothing is counted.
LEMMA CounterInitInv == Init => CounterInv
<1> SUFFICES ASSUME Init PROVE CounterInv
  OBVIOUS
<1>1. /\ 0 \in 0..(CounterMod - 1) /\ 0 % CounterMod = 0
      /\ NoRequest \in [write : BOOLEAN, pos : 0..(Capacity - 1), segs : Seq(Segments)]
  BY BlockAssumption DEF NoRequest
<1>2. TypeOK
  BY <1>1 DEF Init, TypeOK
<1>3. RequestTypes
  BY <1>1, <1>2 DEF Init, RequestTypes
<1>4. CountsRight
  BY <1>1 DEF Init, CountsRight
<1> QED
  BY <1>3, <1>4 DEF CounterInv

\* The disk's data and its counter keep their types: no segment is stored
\* behind the last sector, and the unsigned short stays one (main.c:17,45).
THEOREM BlockTypeOK == Spec => []TypeOK
<1>1. CounterInv => TypeOK
  BY DEF CounterInv, RequestTypes
<1> QED
  BY <1>1, CounterInitInv, CounterStepInv, AlwaysHeld, PTL DEF Spec

\* As long as the requests of a load come one after the other, the counter is
\* the number of hellos not answered modulo 2^16 and no "Hi!" is given that was
\* not earned, behind overflows too (main.c:123,130-133).
THEOREM BlockCountsAlone == Spec => []AloneCounts
<1>1. CounterInv => AloneCounts
  BY DEF CounterInv, CountsRight, AloneCounts
<1> QED
  BY <1>1, CounterInitInv, CounterStepInv, AlwaysHeld, PTL DEF Spec
============================================================================
