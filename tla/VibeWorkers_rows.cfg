SPECIFICATION Spec
CONSTANTS
    w1 = w1
    w2 = w2
    Workers <- TwoWorkers
    MaxLog = 4
    MaxWire = 3
    MaxSwitch = 2
    WireFirst = TRUE
INVARIANT TruthShown
INVARIANT AnswersAgree
SYMMETRY WorkerSymmetry
CHECK_DEADLOCK FALSE
