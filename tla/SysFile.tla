------------------------------ MODULE SysFile ------------------------------
(***************************************************************************)
(* sys/hello.c: a /sys file.  Storing "hello\n" fills foo; a show that     *)
(* finds foo filled clears it and answers "Hi!".  Only the first byte of   *)
(* foo matters: strlen() is compared with 0.                               *)
(*                                                                         *)
(* sys_init() creates the directory, then the file.  If the file fails,    *)
(* the load fails and the directory stays: there can be no second one of   *)
(* its name.  kobject_put() waits for the calls that are under way.        *)
(***************************************************************************)
EXTENDS KernelCalls

CONSTANT MaxSysLoads  \* bound of the model: how often the module is loaded

ASSUME SysAssumption == MaxSysLoads \in Nat

VARIABLES
  sysmod,    \* "out", "loading" or "in"
  kobject,   \* the directory exists
  foo,       \* foo is filled
  sysLoads,  \* how often the module was loaded
  stored,    \* history: there was a "hello" since the module was loaded
  answered,  \* history: how many "Hi!"s there were since the last one
  half       \* history: a load got the directory and failed then

sysVars == <<sysmod, kobject, foo, sysLoads, stored, answered, half>>

SysInit ==
  /\ sysmod = "out"
  /\ kobject = FALSE
  /\ foo = FALSE
  /\ sysLoads = 0
  /\ stored = FALSE
  /\ answered = 0
  /\ half = FALSE

\* sys_init(): kobject_create_and_add(), which fails if the name is taken or
\* for want of memory.  The module's data are new.
CreateKobject ==
  /\ sysmod = "out"
  /\ sysLoads < MaxSysLoads
  /\ sysLoads' = sysLoads + 1
  /\ \/ kobject = FALSE /\ kobject' = TRUE /\ sysmod' = "loading"
     \/ UNCHANGED <<kobject, sysmod>>
  /\ foo' = FALSE /\ stored' = FALSE /\ answered' = 0
  /\ UNCHANGED <<callVars, half>>

\* sysfs_create_file(): nothing is given back when it fails.
CreateFile ==
  /\ sysmod = "loading"
  /\ sysmod' \in {"in", "out"}
  /\ half' = (half \/ sysmod' = "out")
  /\ UNCHANGED <<callVars, kobject, foo, sysLoads, stored, answered>>

sys_exit ==
  /\ sysmod = "in"
  /\ Busy = {}
  /\ sysmod' = "out"
  /\ kobject' = FALSE
  /\ UNCHANGED <<callVars, foo, sysLoads, stored, answered, half>>

\* foo_store() of "hello\n"; anything else changes nothing.
foo_store(u) ==
  \/ /\ sysmod = "in"
     /\ Enter(u, "store", TRUE)
     /\ UNCHANGED sysVars
  \/ /\ Step(u, "store", "out")
     /\ foo' = TRUE
     /\ stored' = TRUE
     /\ answered' = 0
     /\ UNCHANGED <<sysmod, kobject, sysLoads, half>>

\* A show that does not clear foo.
ClearFooNot(u) ==
  /\ Step(u, "clear", "out")
  /\ answered' = answered + 1
  /\ UNCHANGED <<sysmod, kobject, foo, sysLoads, stored, half>>

\* foo_show(): memset() and the answer, after the test
ClearFoo(u) ==
  /\ Step(u, "clear", "out")
  /\ foo' = FALSE
  /\ answered' = answered + 1
  /\ UNCHANGED <<sysmod, kobject, sysLoads, stored, half>>

foo_show(u) ==
  \/ /\ sysmod = "in"
     /\ Enter(u, "show", FALSE)
     /\ UNCHANGED sysVars
  \/ Step(u, "show", IF foo THEN "clear" ELSE "out") /\ UNCHANGED sysVars
  \/ ClearFoo(u)

SysNext ==
  \/ CreateKobject \/ CreateFile \/ sys_exit
  \/ \E u \in Users : foo_store(u) \/ foo_show(u)

SysSpec == CallsInit /\ SysInit /\ [][SysNext]_<<callVars, sysVars>>
----------------------------------------------------------------------------
\* Shows that race for one "hello" (hello.c:18,20) may all answer it, but each
\* process answers it once at most; while calls do not overlap it is answered
\* once at most; and without one there is no answer.  Only a load whose file
\* failed (hello.c:49-54) may leave its directory behind.
SysFileSound ==
  /\ answered <= IF stored THEN Cardinality(Users) ELSE 0
  /\ ~tainted /\ Busy = {} => answered <= 1
  /\ sysmod = "out" /\ kobject => half
============================================================================
