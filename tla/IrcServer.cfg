SPECIFICATION ServerSpec
CONSTANTS
  Client = {c1, c2}
  Nick = {n1, n2}
  NoNick = NoNick
  Nobody = Nobody
  Channel = {ch1}
  Key = {k1}
  NoKey = NoKey
  Topic = {}
  NoTopic = NoTopic
  MaxClient = 0
  ModeLetter = {"i", "k", "l"}
  MaxJoined = 1
SYMMETRY Symmetry
INVARIANTS
  SessionInv
  NamesInv
  MessagesHaveKnownSenders
  SenderStaysOperator
PROPERTIES
  ImplementsRegistry
  ImplementsMembership
