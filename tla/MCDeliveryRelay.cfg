CONSTANTS
  a = a
  h = h
  b = b
  wa = wa
  wa2 = wa2
  wh = wh
  wb = wb
  None = None
  Everyone = Everyone
  Node = {a, h, b}
  Msg = {1, 2}
  From <- RelayFrom
  To <- RelayTo
  Peers <- RelayPeers
  Tokens <- RelayTokens
  Relays = {a, h}
  Courier = {wa, wh, wb}
  Timer = {wa, wh, wb}
  Home <- RelayHome
  Call = {101, 102, 103, 104}
  Window = 2
  MaxFaults = 1
SPECIFICATION FairSpec
INVARIANTS DeliveredIsStored RelayedIsStored InboxIsAddressed
PROPERTY QueuesDrain
