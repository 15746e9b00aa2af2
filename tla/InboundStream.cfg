SPECIFICATION FairSpec
CONSTANTS
  Client = {c1}
  Nobody = Nobody
  Byte = {"q", "CR", "LF"}
  RecvSize = 4
  MaxBuffer = 4
  MaxUnhandled = 5
INVARIANTS
  InboundInv
PROPERTIES
  ImplementsCommandStream
  ServedEventually
