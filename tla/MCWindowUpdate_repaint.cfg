SPECIFICATION FairSpec
CONSTANTS
    w = w
    r1 = r1
    r2 = r2
    r3 = r3
    Rects <- Many
    Whole <- W
    MaxDirty = 3
    MaxSlots = 2
    PipeSize = 3
INVARIANTS
    TypeOK
    RefsBalance
    DirtyFits
    RepaintIsScheduled
    StaleIsDirty
PROPERTIES
    NoPaintAfterDestroy
    ChangeIsPainted
    IdleIsFreed
