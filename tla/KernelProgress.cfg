SPECIFICATION Spec
CONSTANTS
  N_PCBS = 4
  N_STACKS = 4
  N_QNODES = 8
  QUANT_STD = 1
  PID_FIRST_USER = 2
  PID_LIMIT = 5
  PID_HALF = 4
  TIME_MOD = 2
  SleepArgs = {0, 1}
  PrioArgs <- MCPrios
  KillArgs <- MCNone
PROPERTIES
  SleepersWake
  SystemPriorityRuns
