SPECIFICATION FairSpec
CONSTANTS
    Nothing = Nothing
    MaxApps = 2
    Ranges = {"7d"}
    ShortRanges = {}
    BackwardRanges = {}
    FirstRange = "7d"
    Busy <- OldEvents
    MaxPolled = 1
    MaxKeys = 1
    Plans <- OnlyWatching
    Before <- Both
PROPERTIES
    EventsAppear
