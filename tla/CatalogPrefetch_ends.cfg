SPECIFICATION FairPrefetch
CONSTANTS
    MaxInfo = 3
INVARIANT HeldIsWatched
INVARIANT LearnedStaysHidden
PROPERTY Initialized
PROPERTY OrphanGone
CHECK_DEADLOCK FALSE
