----------------------------- MODULE PipeShell -----------------------------
(***************************************************************************)
(* The command interpreters.  The first one runs one program per line.     *)
(* The second one splits a line at "|", makes ONE pipe for it and forks a  *)
(* child per command: the first, third, ... write to the pipe, the second, *)
(* fourth, ... read it, and so does a command that is alone.  Then main    *)
(* closes its own ends and waits for as many children as it forked.        *)
(*                                                                         *)
(* The programs are external: "source" writes Items items to its standard  *)
(* output, "sink" reads its standard input to the end, and for a "missing" *)
(* one the child itself writes one item, the message that it was not       *)
(* found.  A read of the terminal meets its end.  An item of the pipe is   *)
(* the number of the child that wrote it.  "crashed" stands for all that   *)
(* main may do once it has left what the code defines.                     *)
(***************************************************************************)
EXTENDS Naturals, Sequences, FiniteSets

CONSTANTS
  MaxCommands,  \* commands that can be typed in a line (49 characters)
  CommandRoom,  \* the places of command_path[] (10)
  Items,        \* what a "source" writes
  PipeSize      \* items that fit in the pipe

ASSUME ShellAssumption ==
  /\ MaxCommands \in Nat \ {0} /\ CommandRoom \in Nat \ {0} /\ Items \in Nat
  /\ PipeSize \in Nat \ {0}

VARIABLES
  piped,   \* which of the two interpreters runs
  shell,   \* where main is
  line,    \* the commands of the line
  child,   \* what has become of the child of each command
  ends,    \* the ends of the pipe that main (0) and the children hold
  pipe,    \* the items in the pipe
  wrote,   \* how many items each child has written
  got      \* what was read from the pipe

shellVars == <<piped, shell, line, child, ends, pipe, wrote, got>>

Programs == {"source", "sink", "missing"}
Children == 1..MaxCommands
Lines == UNION {[1..n -> Programs] : n \in 0..(IF piped THEN MaxCommands ELSE 1)}

ShellInit ==
  /\ piped \in BOOLEAN
  /\ shell = "prompt"
  /\ line = <<>>
  /\ child = [k \in Children |-> "none"]
  /\ ends = [h \in {0} \cup Children |-> {}]
  /\ pipe = <<>>
  /\ wrote = [k \in Children |-> 0]
  /\ got = <<>>

Readers == {h \in DOMAIN ends : "r" \in ends[h]}
Writers == {h \in DOMAIN ends : "w" \in ends[h]}

\* Child k (counted from 1) of the second interpreter writes to the pipe.
ToPipe(k) == piped /\ k % 2 = 1 /\ Len(line) > 1
FromPipe(k) == piped /\ ~ToPipe(k)
----------------------------------------------------------------------------
(* main() *)

\* fgets(), the test for "exit", the count of the commands and pipe().
ReadLine(l) ==
  /\ shell = "prompt"
  /\ piped => Len(l) <= CommandRoom
  /\ line' = l
  /\ shell' = "fork"
  /\ ends' = IF piped THEN [ends EXCEPT ![0] = {"r", "w"}] ELSE ends
  /\ pipe' = <<>>
  /\ wrote' = [k \in Children |-> 0]
  /\ got' = <<>>
  /\ UNCHANGED <<piped, child>>

\* A line of more commands than command_path[] has places: _command_() writes
\* past its end, before there is a pipe or a child.
Overfill(l) ==
  /\ shell = "prompt"
  /\ piped
  /\ Len(l) > CommandRoom
  /\ shell' = "crashed"
  /\ UNCHANGED <<piped, line, child, ends, pipe, wrote, got>>

\* At the end of the input fgets() leaves the last line in place, as strtok()
\* has cut it: its first command is run again, and again.
ReadEnd ==
  /\ line # <<>>
  /\ ReadLine(<<line[1]>>)

Exit ==
  /\ shell = "prompt"
  /\ shell' = "ended"
  /\ UNCHANGED <<piped, line, child, ends, pipe, wrote, got>>

\* command_count() and lexemes_count() copy the text without its terminator: in
\* the garbage behind it they may find more commands or words than there are,
\* and strdup(NULL) ends main; its ends of the pipe are closed.
Miscount ==
  /\ piped
  /\ shell = "fork"
  /\ shell' = "crashed"
  /\ ends' = [ends EXCEPT ![0] = {}]
  /\ UNCHANGED <<piped, line, child, pipe, wrote, got>>

Unborn == {k \in 1..Len(line) : child[k] = "none"}

\* fork() of the next command: the child inherits both ends.
Fork ==
  /\ shell = "fork"
  /\ \E k \in Unborn :
       /\ \A m \in Unborn : k <= m
       /\ child' = [child EXCEPT ![k] = "forked"]
       /\ ends' = [ends EXCEPT ![k] = ends[0]]
  /\ UNCHANGED <<piped, shell, line, pipe, wrote, got>>

\* A main() that forgets to close its write end.
ClosePipeHalf ==
  /\ shell = "fork"
  /\ Unborn = {}
  /\ ends' = [ends EXCEPT ![0] = @ \ {"r"}]
  /\ shell' = "wait"
  /\ UNCHANGED <<piped, line, child, pipe, wrote, got>>

\* close(pfd[0]) and close(pfd[1])
ClosePipe ==
  /\ shell = "fork"
  /\ Unborn = {}
  /\ ends' = [ends EXCEPT ![0] = {}]
  /\ shell' = "wait"
  /\ UNCHANGED <<piped, line, child, pipe, wrote, got>>

\* wait(NULL), once per command
Wait ==
  /\ shell = "wait"
  /\ \E k \in Children :
       child[k] = "zombie" /\ child' = [child EXCEPT ![k] = "reaped"]
  /\ UNCHANGED <<piped, shell, line, ends, pipe, wrote, got>>

\* A loop that waits once less than it has forked.
WaitedShort ==
  /\ shell = "wait"
  /\ Cardinality({k \in 1..Len(line) : child[k] # "reaped"}) <= 1
  /\ shell' = "prompt"
  /\ child' = [k \in Children |-> "none"]
  /\ UNCHANGED <<piped, line, ends, pipe, wrote, got>>

Waited ==
  /\ shell = "wait"
  /\ \A k \in 1..Len(line) : child[k] = "reaped"
  /\ shell' = "prompt"
  /\ child' = [k \in Children |-> "none"]
  /\ UNCHANGED <<piped, line, ends, pipe, wrote, got>>
----------------------------------------------------------------------------
(* The children *)

\* exit() or a signal closes what the process holds.
Dies(k) ==
  /\ child' = [child EXCEPT ![k] = "zombie"]
  /\ ends' = [ends EXCEPT ![k] = {}]

\* The two close() and dup2(), and execve().  The argv[] of the first
\* interpreter is not terminated: its execv() may fail for that.
Exec(k) ==
  /\ child[k] = "forked"
  /\ \/ /\ child' = [child EXCEPT ![k] = "runs"]
        /\ ends' = [ends EXCEPT ![k] = @ \cap {IF ToPipe(k) THEN "w" ELSE "r"}]
     \/ ~piped /\ Dies(k)
  /\ UNCHANGED <<piped, shell, line, pipe, wrote, got>>

Quota(k) == CASE line[k] = "source" -> Items [] line[k] = "missing" -> 1 [] OTHER -> 0

\* write(): a full pipe makes the child wait, one without readers kills it.
Write(k) ==
  /\ child[k] = "runs"
  /\ wrote[k] < Quota(k)
  /\ IF ToPipe(k) /\ Readers = {}
     THEN Dies(k) /\ UNCHANGED <<pipe, wrote>>
     ELSE /\ ToPipe(k) => Len(pipe) < PipeSize
          /\ pipe' = IF ToPipe(k) THEN Append(pipe, k) ELSE pipe
          /\ wrote' = [wrote EXCEPT ![k] = @ + 1]
          /\ UNCHANGED <<child, ends>>
  /\ UNCHANGED <<piped, shell, line, got>>

\* read() of the pipe
Read(k) ==
  /\ child[k] = "runs" /\ line[k] = "sink" /\ FromPipe(k)
  /\ pipe # <<>>
  /\ got' = Append(got, Head(pipe))
  /\ pipe' = Tail(pipe)
  /\ UNCHANGED <<piped, shell, line, child, ends, wrote>>

\* A sink has met the end of its input, the others have written all.
Finish(k) ==
  /\ child[k] = "runs"
  /\ wrote[k] = Quota(k)
  /\ line[k] = "sink" /\ FromPipe(k) => pipe = <<>> /\ Writers = {}
  /\ Dies(k)
  /\ UNCHANGED <<piped, shell, line, pipe, wrote, got>>

MainNext == Fork \/ ClosePipe \/ Wait \/ Waited
ChildNext(k) == Exec(k) \/ Write(k) \/ Read(k) \/ Finish(k)

ShellNext ==
  \/ \E l \in Lines : ReadLine(l) \/ Overfill(l)
  \/ ReadEnd \/ Exit \/ Miscount
  \/ MainNext
  \/ \E k \in Children : ChildNext(k)

\* The kernel runs all processes; a user who is asked for input ends it.
ShellFairness == WF_shellVars(MainNext) /\ \A k \in Children : WF_shellVars(ChildNext(k))

ShellSpec == ShellInit /\ [][ShellNext]_shellVars /\ ShellFairness
----------------------------------------------------------------------------
\* The processes of this line that write to the pipe.
Feeders == {k \in 1..Len(line) : ToPipe(k)}

\* The places of a stream where an item of child k is.
ItemsOf(k, stream) == {i \in 1..Len(stream) : stream[i] = k}

\* One pipe for the whole line (main.c:49) loses and repeats nothing: what was
\* read and what is left are together all that the first and the third command
\* have written.  A command that saw the end of the pipe saw the end of all of
\* them, because main holds its end until the last fork.  And at the prompt no
\* child of the line is left and nobody holds an end of its pipe.
PipelineRight ==
  /\ \A k \in Feeders : Cardinality(ItemsOf(k, got \o pipe)) = wrote[k]
  /\ shell # "crashed" =>
       \A k \in 1..Len(line) :
         child[k] \in {"zombie", "reaped"} /\ line[k] = "sink" /\ FromPipe(k) =>
           \A m \in Feeders : child[m] \in {"zombie", "reaped"} /\ wrote[m] = Quota(m)
  /\ shell = "prompt" => \A h \in DOMAIN ends : ends[h] = {}

\* Every line comes to its end, whichever commands share the pipe, whether they
\* exist or not and however small the pipe is, unless main has crashed.
LineEnds == shell = "fork" ~> shell \in {"prompt", "crashed"}
============================================================================
