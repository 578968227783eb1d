SPECIFICATION Spec
CONSTANTS
    w = w
    r1 = r1
    r2 = r2
    r3 = r3
    Rects <- Few
    Whole <- W
    MaxDirty = 3
    MaxSlots = 2
    PipeSize = 3
INVARIANTS
    FreedIsUnmanaged
