INIT Init
NEXT Next
CONSTANTS
  N_PCBS = 4
  N_STACKS = 4
  N_QNODES = 8
  QUANT_STD = 2
  PID_FIRST_USER = 2
  PID_LIMIT = 5
  PID_HALF = 4
  TIME_MOD = 3
  SleepArgs = {0, 1, 2}
  PrioArgs <- MCPrios
  KillArgs <- MCOne
INVARIANTS
  SleepersSorted
  QueuesNeverFail
PROPERTIES
  HighestFirst
  WakesAll
  NoOvertaking
