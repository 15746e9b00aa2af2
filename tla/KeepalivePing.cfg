SPECIFICATION Spec
CONSTANTS
  Client = {c1, c2}
  PING_INTERVAL = 2
  PING_TIMEOUT = 1
  MaxTime = 5
PROPERTIES
  SilentClientsArePinged
