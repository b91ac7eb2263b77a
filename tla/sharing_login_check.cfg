SPECIFICATION Spec
CONSTANTS
    Devices = {p1, p2}
    Users = {ann}
    Diaries = {d1}
    NoUser = NoUser
    NoDiary = NoDiary
    InitialUsers = {}
    AnonymousWrites = TRUE
    Offline = FALSE
    MaxInvites = 0
    MaxKills = 0
    MaxLogOuts = 0
CHECK_DEADLOCK FALSE
PROPERTY ListsNeverShrink
