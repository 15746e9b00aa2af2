SPECIFICATION DeliverySpec
CONSTANTS
  Client = {c1,c2,c3}
  Channel = {ch1}
  Key = {}
  NoKey = NoKey
  Topic = {}
  NoTopic = NoTopic
  MaxClient = 0
  ModeLetter = {"i"}
  MaxJoined = 3
SYMMETRY Symmetry
INVARIANTS
  ViewInv
PROPERTIES
  LeavingVoidsInvitation
  OutsidersOnlyByGrant
  OperatorSuccession
  OperatorsAreAppointed
