------------------------------ MODULE MCKernel ------------------------------
(* The kernel modules, one at a time: `program` chooses.  Two CPUs issue   *)
(* requests to the disk: a segment of the whole disk that says hello,      *)
(* short ones that do or do not, and a counter of one bit, so that it      *)
(* overflows.  Two processes use the other devices.                        *)
EXTENDS BlockDevice, RWDevice, ProcFile, SysFile

CONSTANTS cpu1, cpu2, u1, u2

VARIABLE program

MCCpus == {cpu1, cpu2}
MCSegments == {[hello |-> TRUE, len |-> 2]} \cup [hello : BOOLEAN, len : {1}]
MCUsers == {u1, u2}
MCLengths == {1, 3}
MCHellos == {6, 8}
MCCounts == {0, 4, 7}

MCInit ==
  /\ program \in {"block_device", "ioctl", "proc", "sys"}
  /\ Init /\ CallsInit /\ RWInit /\ ProcInit /\ SysInit

MCNext ==
  \/ /\ program = "block_device" /\ Next
     /\ UNCHANGED <<program, callVars, rwVars, procVars, sysVars>>
  \/ /\ program = "ioctl" /\ RWNext
     /\ UNCHANGED <<program, vars, procVars, sysVars>>
  \/ /\ program = "proc" /\ ProcNext
     /\ UNCHANGED <<program, vars, rwVars, sysVars>>
  \/ /\ program = "sys" /\ SysNext
     /\ UNCHANGED <<program, vars, rwVars, procVars>>

MCSpec ==
  /\ MCInit
  /\ [][MCNext]_<<program, vars, callVars, rwVars, procVars, sysVars>>
  /\ Fairness
============================================================================
