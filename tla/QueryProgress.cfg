CONSTANTS
  t1 = t1
  t2 = t2
  s1 = s1
  s2 = s2
  p1 = p1
  None = None
  Trackers = {t1, t2}
  Subscribers = {s1, s2}
  Reporters = {p1}
  Buffer = 2
  MaxUpdates = 3
SPECIFICATION Spec
INVARIANTS TypeOK OpenIffMember ProgressGrows LatestIsSent
PROPERTIES ChannelCloses
CHECK_DEADLOCK FALSE
