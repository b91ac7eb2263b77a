SPECIFICATION Spec
CONSTANTS
    Members = {ann, bob}
    Me = ann
    Days = {mon, tue}
    Today = tue
    NoEntry = NoEntry
    Untitled = FALSE
    CoversFail = FALSE
    OthersWrite = FALSE
    Patient = FALSE
    MaxAsked = 2
CHECK_DEADLOCK FALSE
PROPERTY DeletesEntryShown
