SPECIFICATION Spec
CONSTANTS
  Senders = {rx, test}
  rx = rx
  test = test
  RxDaemon = rx
  TxDaemon = tx
  tx = tx
  TOTAL_CB = 2
  MaxPackets = 3
INVARIANTS
  RingBooks
  CuSeesWholeCommands
  SentInOrder
PROPERTIES
  RoomReturns
