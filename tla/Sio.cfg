SPECIFICATION Spec
CONSTANTS
  Procs = {p1, p2}
  p1 = p1
  p2 = p2
  Received = {13, 97}
  Sizes = {1, 2, 4}
  Writes <- MCWrites
  BUF_SIZE = 3
INVARIANTS
  TransmitterArmed
PROPERTIES
  BehavesAsLine
  FullDrains
