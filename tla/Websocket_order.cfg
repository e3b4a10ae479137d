SPECIFICATION Spec
CONSTANTS
  Handlers = {h1, h2}
  Channels = {c1, c2}
  ChannelOf <- OneChannel
  MayFail = {h1, h2}
  MayLeave = {h2}
  MaxSends <- ThreeAndOne
  c1 = c1
  c2 = c2
  h1 = h1
  h2 = h2
INVARIANTS TypeOK WriteInProgress SenderOrder
CHECK_DEADLOCK FALSE
