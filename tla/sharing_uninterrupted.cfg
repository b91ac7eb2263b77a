SPECIFICATION FairSpec
CONSTANTS
    Devices = {p1, p2}
    Users = {ann, bob}
    Diaries = {d1}
    NoUser = NoUser
    NoDiary = NoDiary
    InitialUsers = {ann, bob}
    AnonymousWrites = TRUE
    Offline = FALSE
    MaxInvites = 1
    MaxKills = 0
    MaxLogOuts = 0
CHECK_DEADLOCK FALSE
INVARIANT ListedHasDiaryID
PROPERTIES ListsNeverShrink MembersSeeDiary
