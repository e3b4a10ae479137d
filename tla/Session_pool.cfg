SPECIFICATION FairSpec
CONSTANTS
  Sessions = {s1, s2}
  MayLeave = {s1, s2}
  MayTie = {s2}
  MayStall = {s1}
  None = None
  s1 = s1
  s2 = s2
INVARIANTS TypeOK TimerSafe SpareThread OneResponse
PROPERTIES NoWorkAfterTimeout HandedOver Accepting Ended
CHECK_DEADLOCK FALSE
