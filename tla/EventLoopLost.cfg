SPECIFICATION FairSpec
CONSTANTS
  Fd = {f1}
  Listener = listener
  MaxBacklog = 1
PROPERTIES
  LostClientsAreRemoved
CHECK_DEADLOCK FALSE
