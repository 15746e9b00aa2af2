SPECIFICATION DeliverySpec
CONSTANTS
  Client = {c1,c2}
  Channel = {ch1,ch2}
  Key = {}
  NoKey = NoKey
  Topic = {}
  NoTopic = NoTopic
  MaxClient = 0
  ModeLetter = {}
  MaxJoined = 3
SYMMETRY Symmetry
INVARIANTS
  MembershipInv
  NoDanglingMember
  NicknamesAreKnown
