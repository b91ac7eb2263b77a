SPECIFICATION FairSpec
CONSTANTS
    Diaries = {1, 2, 3}
    NoDiary = NoDiary
    InitialDiaries = {2}
    Offline = TRUE
    InOrder = TRUE
    MaxHaste = 1
    MaxAsked = 2
    MaxEntries = 2
CHECK_DEADLOCK FALSE
INVARIANTS TypeOK  CardsAreTheList SelectionIsCentre
PROPERTIES AddedDiaryShown 
