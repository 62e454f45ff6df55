SPECIFICATION FairSpec
CONSTANTS
    Nothing = Nothing
    MaxApps = 2
    Ranges = {"7d", "today", "backwards"}
    ShortRanges = {"today", "backwards"}
    BackwardRanges = {"backwards"}
    FirstRange = "7d"
    Busy <- OldEvents
    MaxPolled = 2
    MaxKeys = 1
    Plans <- EveryPlan
    Before <- Some
INVARIANTS
    TypeOK
    ScreensAreAnswers
    KeysAreKept
    OneRequestPerDialog
PROPERTIES
    NeverDeselected
    SettlesOnSelection
    NothingSpinsForever
