SPECIFICATION Spec
CONSTANTS
    Users = {ann, bob}
    NoUser = NoUser
    Songs = {s1, s2}
    NoSong = NoSong
    Placeholder = Placeholder
    NoDraft = NoDraft
    MaxDay = 1
    MaxEntries = 2
    MaxAsked = 1
SYMMETRY SongSymmetry
PROPERTY SavedForUser
