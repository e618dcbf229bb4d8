SPECIFICATION Spec
CONSTANTS
  Queues = {fifo, sleeping}
  Sorted = {sleeping}
  Data = {1, 2, 3}
  N_QNODES = 4
  fifo = fifo
  sleeping = sleeping
  NoData = NoData
  Key <- MCKey
INVARIANTS
  WellLinked
PROPERTIES
  KeepsPromise
