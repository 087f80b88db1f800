CONSTANTS
  s1 = s1
  k1 = k1
  r1 = r1
  Subscribers = {s1}
  Confirmers = {k1}
  Requesters = {r1}
  ChannelCap = 8
  MaxInflight = 2
  MaxTracked = 2
  RequestQos = 1
  Rejects = {s1}
  Timeouts = {k1, r1}
  Cancellers = {r1}
  MaxReplies = 1
  MaxDisconnects = 1

SPECIFICATION Spec
INVARIANTS
  TypeOK
  ConfirmedIsStored
  AckedIsGranted
  RegisteredIsSubscribed
  NoOrphan
CHECK_DEADLOCK FALSE
