SPECIFICATION Spec
CONSTANTS
    None = None
    NullText = NullText
    NoCall = NoCall
    f = f
    k = k
    v1 = v1
    v2 = v2
    a = a
    b = b
    Clients = {a, b}
    Listeners = {a}
    Exiting = {b}
    Files = {f}
    Names = {k}
    Values = {v1, v2}
    Requests <- ReloadRequests
    MaxSlots = 1
    Capacity = 1
    MaxCrashes = 1
CHECK_DEADLOCK FALSE
PROPERTY
    SavedIsReloaded
