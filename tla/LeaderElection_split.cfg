SPECIFICATION Spec
CONSTANTS
    Clients = {c1, c2}
    Leaders = {l0, l1, l2}
    Old = {}
    Nobody = Nobody
    First = Nobody
    MaxSpawns = 2
    MaxEvicts = 1
    MaxFaults = 1
INVARIANT NoSplitBrain
CHECK_DEADLOCK FALSE
