CONSTANTS
    None = None
    p1 = p1  p2 = p2
    s1 = s1  r1 = r1  u1 = u1
    n1 = n1
    Users = {u1}
    Syncers = {s1, r1}
    Refresher = s1
    Processes = {p1, p2}
    ProcOf <- Two
    Names = {n1}
    Synced = n1
    Keep = 2
    MaxCentral = 2
    MaxPuts = 1
    MaxFaults = 1
SPECIFICATION FairSpec
INVARIANTS TypeOK AcksSurvive VersionsNameOne ServedIsStored
PROPERTY SyncSettles
CHECK_DEADLOCK FALSE
