SPECIFICATION Spec
CHECK_DEADLOCK FALSE
CONSTANTS
  Procs = {p, q}
  Sizes = {1, 2, 4}
  C_BUFSIZE = 3
  MaxCodes = 5
  MaxWaiting = 2
INVARIANTS
  ConsoleDoesNotBlock
