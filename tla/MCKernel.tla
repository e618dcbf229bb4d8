------------------------------ MODULE MCKernel ------------------------------
(***************************************************************************)
(* Instances of Kernel for TLC.  pid_t has three bits.  The processes      *)
(* forked are 2 (idle), 3 and -4, or, in the run family, 3 (idle), -4, -3  *)
(* and -2; the next one would have the PID of a free PCB.                  *)
(***************************************************************************)
EXTENDS Kernel

MCIllegalPrio == {7}
MCPrios == {0, 7}
MCNone == {}
MCOne == {3}
\* everyone but idle, and nobody
MCKillArgs == {1, 2, -4, -3, -2}
=============================================================================
