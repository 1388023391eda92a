SPECIFICATION FallbackSpec
CONSTANTS
    Fast = 1
    Slow = 2
    Stale = 3
    Longest = 1
INVARIANTS
    SilenceShows
    LossInTime
    ReadInTime
