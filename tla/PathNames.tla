----------------------------- MODULE PathNames -----------------------------
(***************************************************************************)
(* dirname & basename: dirn() and basen(), the thread-safe versions of     *)
(* dirname(3) and basename(3).  Each function works in a buffer of 4096    *)
(* bytes that every thread has for itself (thread-specific data) and       *)
(* returns a pointer to it, so an answer has to stay right until the same  *)
(* thread calls the same function again.                                   *)
(*                                                                         *)
(* A string is the sequence of its characters before the terminating 0.    *)
(* Two arrays are read past the bytes that were written: buf, copied back  *)
(* with strcpy() although it was never terminated, and filename in basen().*)
(* What lies there is a choice from BufTails and FileTails.  Neither array *)
(* is checked for its end: a call that writes past it ends in the place    *)
(* "undefined", after which nothing is said of any thread.                 *)
(***************************************************************************)
EXTENDS Integers, Sequences, FiniteSets, SequencesExt

CONSTANTS
  Callers,    \* the threads that call the functions
  PathChars,  \* the characters, a slash and a dot among them
  PathsOf,    \* what each thread calls the functions with: sequences of characters
  PathSize,   \* the bytes of a thread's buffer (4096)
  NameSize,   \* the bytes of filename[] in basen() (255)
  BufTails,   \* for each thread, what may follow the copied characters in the malloc'ed buf
  FileTails   \* for each thread, what may follow the copied characters in filename

ASSUME PathAssumption ==
  /\ {"/", "."} \subseteq PathChars
  /\ PathSize \in Nat /\ NameSize \in Nat
  /\ \A t \in Callers :
       /\ PathsOf[t] \subseteq Seq(PathChars)
       /\ BufTails[t] \subseteq Seq(PathChars) /\ <<>> \in BufTails[t]
       /\ FileTails[t] \subseteq Seq(PathChars) /\ <<>> \in FileTails[t]

VARIABLES
  place,   \* thread -> where it is in a call
  fn,      \* thread -> the function it called last
  string,  \* thread and function -> its buffer, seen as a string
  asked,   \* history: thread and function -> <<the path of the last call>>
  bufTail, \* history: thread and function -> what followed buf in that call
  fileTail \* history: thread and function -> what followed filename

pathVars == <<place, fn, string, asked, bufTail, fileTail>>

FnNames == {"dirn", "basen"}

Keys == Callers \X FnNames

\* One buffer for all threads, as in a dirname() with a static array.
SpecificShared(t) == <<CHOOSE u \in Callers : TRUE, fn[t]>>

\* pthread_getspecific(): each function has a key of its own, each thread a
\* value of its own.
Specific(t) == <<t, fn[t]>>

PathInit ==
  /\ place = [t \in Callers |-> "out"]
  /\ fn = [t \in Callers |-> "dirn"]
  /\ string = [k \in Keys |-> <<>>]
  /\ asked = [k \in Keys |-> <<>>]
  /\ bufTail = [k \in Keys |-> <<>>]
  /\ fileTail = [k \in Keys |-> <<>>]

\* A thread calls f(p).  Its buffer is there from here on.
CallFn(t, f, p) ==
  /\ place[t] = "out"
  /\ place' = [place EXCEPT ![t] = "copy"]
  /\ fn' = [fn EXCEPT ![t] = f]
  /\ asked' = [asked EXCEPT ![<<t, f>>] = <<p>>]
  /\ UNCHANGED <<string, bufTail, fileTail>>

\* A string fits a buffer with its terminating 0.
Fits(s) == Len(s) < PathSize

\* Where a call goes on: nobody knows where, once it has written past an array.
GoOn(t, fits, next) ==
  place' = [place EXCEPT ![t] = IF fits THEN next ELSE "undefined"]

\* strcpy(string, pathname)
CopyIn(t) ==
  /\ place[t] = "copy"
  /\ string' = [string EXCEPT ![Specific(t)] = asked[<<t, fn[t]>>][1]]
  /\ GoOn(t, Fits(asked[<<t, fn[t]>>][1]), "squeeze")
  /\ UNCHANGED <<fn, asked, bufTail, fileTail>>

\* How many elements of S are not above i, and the k-th smallest one of S.
Rank(S, i) == Cardinality({j \in S : j <= i})
Nth(S, k) == CHOOSE i \in S : Rank(S, i) = k

\* The places of s that the loop does not skip: it skips a slash that follows
\* a slash.
Kept(s) == {i \in DOMAIN s : i > 1 /\ s[i] = "/" => s[i - 1] # "/"}

Squeezed(s) == [k \in 1..Cardinality(Kept(s)) |-> s[Nth(Kept(s), k)]]

\* The loop into buf, and buf copied back with whatever follows it.
Squeeze(t) ==
  /\ place[t] = "squeeze"
  /\ \E tail \in BufTails[t] :
       /\ string' = [string EXCEPT ![Specific(t)] = Squeezed(@) \o tail]
       /\ bufTail' = [bufTail EXCEPT ![<<t, fn[t]>>] = tail]
       /\ GoOn(t, Fits(Squeezed(string[Specific(t)]) \o tail), "trim")
  /\ UNCHANGED <<fn, asked, fileTail>>

\* A slash at the end is cut, unless it is the whole string.
Trimmed(s) == IF Len(s) > 1 /\ Last(s) = "/" THEN Front(s) ELSE s

Trim(t) ==
  /\ place[t] = "trim"
  /\ string' = [string EXCEPT ![Specific(t)] = Trimmed(@)]
  /\ place' = [place EXCEPT ![t] = "answer"]
  /\ UNCHANGED <<fn, asked, bufTail, fileTail>>

SlashesIn(s) == {i \in DOMAIN s : s[i] = "/"}

LastSlash(s) == CHOOSE i \in SlashesIn(s) : \A j \in SlashesIn(s) : j <= i

\* What dirn() leaves of the trimmed string.  The test of line 88 assigns 0
\* to amount, so of its three alternatives only slash == 0 can hold; the
\* test for ".." after it never holds.
DirectoryOf(s) ==
  CASE SlashesIn(s) = {1} -> <<"/">>
    [] SlashesIn(s) = {} -> <<".">>
    [] OTHER -> SubSeq(s, 1, LastSlash(s) - 1)

\* What basen() copies into filename[]: nothing if the string is its own answer.
Filename(s) ==
  IF SlashesIn(s) = {} \/ s = <<"/">> THEN <<>> ELSE SubSeq(s, LastSlash(s) + 1, Len(s))

\* What basen() leaves of it, filename being copied back without its 0.
NameOf(s, tail) ==
  CASE s = <<>> -> <<".">>
    [] s # <<>> /\ SlashesIn(s) = {} -> s
    [] s = <<"/">> -> s
    [] OTHER -> Filename(s) \o tail

AnswerDirn(t) ==
  /\ place[t] = "answer"
  /\ fn[t] = "dirn"
  /\ string' = [string EXCEPT ![Specific(t)] = DirectoryOf(@)]
  /\ place' = [place EXCEPT ![t] = "out"]
  /\ UNCHANGED <<fn, asked, bufTail, fileTail>>

AnswerBasen(t) ==
  /\ place[t] = "answer"
  /\ fn[t] = "basen"
  /\ \E tail \in FileTails[t] :
       /\ string' = [string EXCEPT ![Specific(t)] = NameOf(@, tail)]
       /\ fileTail' = [fileTail EXCEPT ![<<t, fn[t]>>] = tail]
       /\ GoOn(t,
               /\ Len(Filename(string[Specific(t)])) <= NameSize
               /\ Fits(NameOf(string[Specific(t)], tail)),
               "out")
  /\ UNCHANGED <<fn, asked, bufTail>>

\* One call of dirn() or basen().
CallerNext(t) ==
  \/ \E f \in FnNames, p \in PathsOf[t] : CallFn(t, f, p)
  \/ CopyIn(t)
  \/ Squeeze(t)
  \/ Trim(t)
  \/ AnswerDirn(t)
  \/ AnswerBasen(t)

PathNext == \E t \in Callers : CallerNext(t)

PathSpec == PathInit /\ [][PathNext]_pathVars

(***************************************************************************)
(* The reference: what a path names, by its components.                    *)
(***************************************************************************)

IsAbsolute(p) == p # <<>> /\ p[1] = "/"

\* Where components begin: the longest runs of p without a slash.
Starts(p) == {i \in DOMAIN p : p[i] # "/" /\ (i > 1 => p[i - 1] = "/")}

\* Where the component that begins at i ends.
EndOf(p, i) ==
  CHOOSE e \in i..Len(p) :
    (\A j \in i..e : p[j] # "/") /\ (e < Len(p) => p[e + 1] = "/")

\* The components of p in order.
Components(p) ==
  [k \in 1..Cardinality(Starts(p)) |->
     LET i == Nth(Starts(p), k) IN SubSeq(p, i, EndOf(p, i))]

\* The path without a component: the root, or where the process is.
NoName(absolute) == IF absolute THEN <<"/">> ELSE <<".">>

\* d is the path with these components: one slash between two of them and in
\* front of an absolute path, and no other.
Joins(d, absolute, names) ==
  IF names = <<>>
    THEN d = NoName(absolute)
    ELSE /\ Components(d) = names
         /\ IsAbsolute(d) <=> absolute
         /\ \A i \in 1..(Len(d) - 1) : ~(d[i] = "/" /\ d[i + 1] = "/")
         /\ d # <<>> /\ d[Len(d)] # "/"

IsParent(d, p) ==
  LET names == Components(p)
  IN  Joins(d, IsAbsolute(p), IF names = <<>> THEN <<>> ELSE Front(names))

BaseName(p) ==
  LET names == Components(p)
  IN  IF names = <<>> THEN NoName(IsAbsolute(p)) ELSE Last(names)

(***************************************************************************)
(* Properties.                                                             *)
(***************************************************************************)

\* The thread has an answer of the function in its hands.
HasAnswer(t, f) == ~(fn[t] = f /\ place[t] # "out") /\ asked[<<t, f>>] # <<>>

\* An answer's buffer holds no more characters than
\* the path and what was found behind it (one for the answer ".").
PathTypeOK ==
  /\ place \in [Callers -> {"out", "copy", "squeeze", "trim", "answer", "undefined"}]
  /\ fn \in [Callers -> FnNames]
  /\ DOMAIN string = Keys
  /\ \A t \in Callers, f \in FnNames :
       HasAnswer(t, f) =>
         Len(string[<<t, f>>])
           <= 1 + Len(asked[<<t, f>>][1])
                + Len(bufTail[<<t, f>>]) + Len(fileTail[<<t, f>>])

\* The directory that a thread got from dirn() is the parent of the path it
\* asked for (of the components of the path, one slash between two), for as
\* long as the thread does not call dirn() again: whatever the other threads
\* ask for meanwhile, and whatever the thread itself asks basen().  It needs
\* buf to be followed by a 0 byte, which dirn() leaves to chance.
DirnRight ==
  \A t \in Callers :
    HasAnswer(t, "dirn") /\ bufTail[<<t, "dirn">>] = <<>>
      => IsParent(string[<<t, "dirn">>], asked[<<t, "dirn">>][1])

\* The same of basen(): the answer is the last component, if filename is
\* followed by a 0 byte too; if only filename is not, the answer is the last
\* component with characters too many.
BasenRight ==
  \A t \in Callers :
    HasAnswer(t, "basen") /\ bufTail[<<t, "basen">>] = <<>> =>
      LET base == BaseName(asked[<<t, "basen">>][1])
      IN  string[<<t, "basen">>] \in {base, base \o fileTail[<<t, "basen">>]}

\* A thread has written past the end of its buffer or of filename[].
Overrun == \E t \in Callers : place[t] = "undefined"

\* Whatever the threads ask and in whatever order, the answers they hold are
\* right, as long as no path is too long for a buffer and no last component for
\* filename[]: each function and each thread has a buffer of its own
\* (dirn.c:16-32, basen.c:16-32).
AnswersRight == ~Overrun => DirnRight /\ BasenRight
=============================================================================
