SPECIFICATION FairSpec
CONSTANTS
  Fd = {f1, f2}
  Listener = listener
  MaxBacklog = 1
INVARIANTS
  EventLoopInv
PROPERTIES
  RemovalsAreForTheReader
  ClientsAreServed
  ResetsAreNoticed
  SignalsEndTheServer
CHECK_DEADLOCK FALSE
