SPECIFICATION Spec
CONSTANTS
    Devices = {p1}
    Users = {ann, bob}
    Diaries = {d1, d2}
    NoUser = NoUser
    NoDiary = NoDiary
    InitialUsers = {bob}
    AnonymousWrites = TRUE
    Offline = TRUE
    MaxInvites = 1
    MaxKills = 1
    MaxLogOuts = 1
CHECK_DEADLOCK FALSE
SYMMETRY DiarySymmetry
INVARIANTS TypeOK ListedImpliesMember 
PROPERTY ImplementsMembership
