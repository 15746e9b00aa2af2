SPECIFICATION Spec
CONSTANTS
  Client = {c1}
  Nobody = Nobody
  Byte = {"x", "CR", "LF"}
  RecvSize = 3
  MaxBuffer = 3
  MaxUnhandled = 5
PROPERTIES
  OnlyLongMessagesAreRefused
