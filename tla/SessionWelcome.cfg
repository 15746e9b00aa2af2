SPECIFICATION Spec
CONSTANTS
  Client = {c1}
  Nick = {n1}
  NoNick = NoNick
  Nobody = Nobody
INVARIANTS
  RegisteredAreWelcomed
