SPECIFICATION Spec
CONSTANTS
  Client = {c1,c2}
  Channel = {ch1}
  Key = {k1,k2}
  NoKey = NoKey
  Topic = {t1}
  NoTopic = NoTopic
  MaxClient = 2
  ModeLetter = {"i", "t", "k", "l"}
  MaxJoined = 2
SYMMETRY Symmetry
PROPERTIES
  DeadChannelStaysDead
  AdmittedWithinLimit
