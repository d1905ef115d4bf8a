SPECIFICATION FairHistory
CONSTANTS
    Histories <- AllFiles
    Kinds <- Both
    MaxLoad = 2
    MaxReload = 0
    MaxWrite = 2
    MaxRace = 1
    MaxRewrite = 1
    MaxOther = 1
    MaxForeign = 1
INVARIANT InPlace
INVARIANT ShownOnce
INVARIANT NothingSkippedUnraced
PROPERTY NoteShown
CHECK_DEADLOCK FALSE
