----------------------------- MODULE MCPrograms ----------------------------
(* The smaller programs, one at a time: `program` chooses.  Books            *)
(* of up to five records of two people and two numbers; two files, texts     *)
(* longer and shorter than they, and one that does not fit the buffer; lines *)
(* of up to four commands, lines of one more than there is room for, and a   *)
(* pipe that one item fills; three threads that call one_time_init() up to   *)
(* twice each.                                                               *)
EXTENDS Phonebook, Editors, PipeShell, OneTimeInit

CONSTANTS t1, t2, t3

VARIABLE program

MCThreads == {t1, t2, t3}
MCPeople == {"ann", "bob"}
MCPhones == {1, 2}
MCIds == -1..5
MCChars == {"1", "2", "3", "t", "u", "v", "x", "y", "z"}
MCContents == [a |-> <<"1", "2">>, b |-> <<"3">>]
MCTexts == {<<>>, <<"x">>, <<"y", "z">>, <<"t", "u", "v">>,
            <<"t", "u", "v", "x">>}

MCInit ==
  /\ program \in {"phone book", "editor", "shell", "once"}
  /\ BookInit /\ EditInit /\ ShellInit /\ Init
  /\ program # "shell" => ~piped

MCNext ==
  \/ program = "phone book" /\ BookNext /\ UNCHANGED <<program, editVars, shellVars, vars>>
  \/ program = "editor" /\ EditNext /\ UNCHANGED <<program, bookVars, shellVars, vars>>
  \/ program = "shell" /\ ShellNext /\ UNCHANGED <<program, bookVars, editVars, vars>>
  \/ program = "once" /\ Next /\ UNCHANGED <<program, bookVars, editVars, shellVars>>

MCSpec ==
  /\ MCInit
  /\ [][MCNext]_<<program, bookVars, editVars, shellVars, vars>>
  /\ ShellFairness /\ Fairness
============================================================================
