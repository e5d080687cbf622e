CONSTANTS
  a = a
  h = h
  b = b
  wa = wa
  wa2 = wa2
  wh = wh
  wb = wb
  None = None
  Everyone = Everyone
  Node = {a, h, b}
  Msg = {1, 2}
  From <- PullFrom
  To <- PullTo
  Peers <- PullPeers
  Tokens <- PullTokens
  Relays = {}
  Courier = {wa, wb}
  Timer = {wa, wb}
  Home <- PullHome
  Call = {101, 102, 103, 104}
  Window = 1
  MaxFaults = 0
SPECIFICATION PullSpec
PROPERTY PullArrives
