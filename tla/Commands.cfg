CONSTANTS
  c1 = c1
  c2 = c2
  c3 = c3
  q1 = q1
  q2 = q2
  q3 = q3
  Callers = {c1, c2, c3}
  Requests = {q1, q2, q3}
  Capacity = 1
  Continuations = 1
  MaxAttempts = 2
  GateCap = 2
  Address <- AddressOf
  Scenes <- ThreeScenes

SPECIFICATION FairSpec
INVARIANTS
  TypeOK
  AnsweredOnce
  NothingBehindShutdown
  SubscriptionsFollow
  GateBeforeDirect
PROPERTIES
  RegistryDrains
CHECK_DEADLOCK FALSE
