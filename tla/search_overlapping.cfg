SPECIFICATION FairSpec
CONSTANTS
    s1 = s1
    s2 = s2
    s3 = s3
    Songs = {s1, s2, s3}
    Keywords = {"two", "many", "none"}
    EmptyText = TRUE
    Found <- FoundSongs
    Display = 2
    NoResult = NoResult
    NoSong = NoSong
    Failing = TRUE
    MaxAsked = 2
CHECK_DEADLOCK FALSE
INVARIANTS TypeOK TableConsistent ListIsResult
PROPERTIES ChoosesRowShown IndicatorStops
