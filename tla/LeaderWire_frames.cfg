SPECIFICATION FairSpec
CONSTANTS
    MaxUp = 4
    MaxDown = 4
INVARIANT NoFrameSkipped
INVARIANT NothingDropped
PROPERTY FrameArrives
CHECK_DEADLOCK FALSE
