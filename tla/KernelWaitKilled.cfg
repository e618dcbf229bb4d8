SPECIFICATION Spec
CONSTANTS
  N_PCBS = 4
  N_STACKS = 4
  N_QNODES = 8
  QUANT_STD = 1
  PID_FIRST_USER = 3
  PID_LIMIT = 6
  PID_HALF = 4
  TIME_MOD = 1
  SleepArgs = {0}
  PrioArgs <- MCNone
  KillArgs <- MCKillArgs
INVARIANTS
  WaitFindsDeadChild
