SPECIFICATION FairSpec
CONSTANTS
    Clients = {c1, c2}
    Leaders = {l0, l1}
    Old = {c2, l0}
    Nobody = Nobody
    First = Nobody
    MaxSpawns = 2
    MaxEvicts = 1
    MaxFaults = 1
INVARIANT CrashesNeverSplit
PROPERTY SocketKept
PROPERTY ClientsEnd
CHECK_DEADLOCK FALSE
