SPECIFICATION Spec
CONSTANTS
  LineChar = {"a", "#", ":", "SP", "TAB", "VT", "LF"}
  NumberChar = {"+", "0", "1", "2", "5", "a"}
  ModeChar = {"+", "-", "o", "k", "l", "i", "a"}
  MaxLine = 6
  MaxNumber = 5
  MaxModes = 5
  MaxParams = 3
  MaxNick = 3
  MaxClients = 50
  MaxBuffer = 12
  MinPort = 10
  MaxPort = 205
  IntMax = 999
  LongMax = 5200
CHECK_DEADLOCK FALSE
INVARIANTS
  SplitIsByWords
  NamesCanBeRepeated
  PasswordCanBeGiven
  LimitIsWhatIsWritten
  PortIsWhatIsWritten
  ParametersInOrder
