SPECIFICATION Spec
CONSTANTS
    Members = {ann, bob}
    Me = ann
    Days = {mon, tue}
    Today = tue
    NoEntry = NoEntry
    Untitled = FALSE
    CoversFail = TRUE
    OthersWrite = TRUE
    Patient = TRUE
    MaxAsked = 1
CHECK_DEADLOCK FALSE
INVARIANTS TypeOK 
PROPERTY DeletesOnlyOwn
