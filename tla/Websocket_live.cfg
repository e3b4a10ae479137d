SPECIFICATION FairSpec
CONSTANTS
  Handlers = {h1, h2}
  Channels = {c1, c2}
  ChannelOf <- OneChannel
  MayFail = {h1}
  MayLeave = {h1, h2}
  MaxSends <- OneEach
  c1 = c1
  c2 = c2
  h1 = h1
  h2 = h2
INVARIANTS MembersAlive EntryOutlivesUse
PROPERTIES Delivered Released
CHECK_DEADLOCK FALSE
