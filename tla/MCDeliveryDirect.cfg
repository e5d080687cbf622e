CONSTANTS
  a = a
  h = h
  b = b
  wa = wa
  wa2 = wa2
  wh = wh
  wb = wb
  None = None
  Everyone = Everyone
  Node = {a, b}
  Msg = {1, 2}
  From <- DirectFrom
  To <- DirectTo
  Peers <- DirectPeers
  Tokens <- DirectTokens
  Relays = {}
  Courier = {wa, wa2, wb}
  Timer = {}
  Home <- DirectHome
  Call = {101, 102, 103, 104}
  Window = 2
  MaxFaults = 2
SPECIFICATION Spec
INVARIANT Invariant
PROPERTY ImplementsMailbox
