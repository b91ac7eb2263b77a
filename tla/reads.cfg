SPECIFICATION FairSpec
CONSTANTS
    Docs = {a}
    MaxGets = 2
    MaxVersion = 1
INVARIANTS TypeOK ToldOnce InSyncIsFresh NoAssertFails
PROPERTY EveryGetAnswered
