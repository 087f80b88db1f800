CONSTANTS
  s1 = s1
  k1 = k1
  r1 = r1
  Subscribers = {s1}
  Confirmers = {}
  Requesters = {r1}
  ChannelCap = 1
  MaxInflight = 2
  MaxTracked = 2
  RequestQos = 1
  Rejects = {}
  Timeouts = {s1, r1}
  Cancellers = {r1}
  MaxReplies = 1
  MaxDisconnects = 1

SPECIFICATION FairSpec
PROPERTIES
  Reconnects
CHECK_DEADLOCK FALSE
