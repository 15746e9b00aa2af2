SPECIFICATION Spec
CONSTANTS
  Client = {c1}
  Channel = {ch1}
  Key = {}
  NoKey = NoKey
  Topic = {}
  NoTopic = NoTopic
  MaxClient = 1
  ModeLetter = {"l"}
  MaxJoined = 1
SYMMETRY Symmetry
INVARIANTS
  LimitIsPositive
