SPECIFICATION Spec
CONSTANTS
  Handlers = {h1, h2}
  Channels = {c1, c2}
  ChannelOf <- OneChannel
  MayFail = {}
  MayLeave = {h2}
  MaxSends <- OneEach
  c1 = c1
  c2 = c2
  h1 = h1
  h2 = h2
PROPERTY SendingGoesOn
CHECK_DEADLOCK FALSE
