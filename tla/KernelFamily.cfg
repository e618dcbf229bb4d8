INIT Init
NEXT Next
CONSTANTS
  N_PCBS = 5
  N_STACKS = 5
  N_QNODES = 10
  QUANT_STD = 1
  PID_FIRST_USER = 3
  PID_LIMIT = 7
  PID_HALF = 4
  TIME_MOD = 1
  SleepArgs = {0}
  PrioArgs <- MCIllegalPrio
  KillArgs <- MCKillArgs
INVARIANTS
  TypeOK
  QueueDiscipline
  StackOwnership
  QnodesBalance
  PidsUnique
  ParentAlive
  ChildrenCounted
  NoLostExit
  OnlyMemoryPanics
PROPERTIES
  DeadStayDead
  WaitEndsWithChild
