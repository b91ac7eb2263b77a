SPECIFICATION Spec
CONSTANTS
    Users = {ann}
    NoUser = NoUser
    Songs = {s1, s2}
    NoSong = NoSong
    Placeholder = Placeholder
    NoDraft = NoDraft
    MaxDay = 2
    MaxEntries = 2
    MaxAsked = 2
SYMMETRY SongSymmetry
INVARIANTS TypeOK SongWhole  
PROPERTY SavesChoice
