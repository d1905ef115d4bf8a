SPECIFICATION Spec
CONSTANTS
    c1 = c1
    c2 = c2
    m1 = m1
    m2 = m2
    NoModel = NoModel
    Clients = {c1, c2}
    Models = {m1, m2}
    MaxAsk <- OneBusyClient
INVARIANT NewestChoice
INVARIANT BusyExact
INVARIANT RelaunchSpares
SYMMETRY ModelSymmetry
CHECK_DEADLOCK FALSE
