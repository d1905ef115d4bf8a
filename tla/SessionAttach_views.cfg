SPECIFICATION Spec
CONSTANTS
    a = a
    b = b
    i = i
    Clients = {a, b}
    Interactions = {i}
    None = None
    MaxTraffic = 2
    MaxBuffered = 2
INVARIANT WireOrder
INVARIANT MissedOnlyDark
INVARIANT CardsAgree
SYMMETRY ClientSymmetry
CHECK_DEADLOCK FALSE
