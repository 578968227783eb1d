SPECIFICATION FairSpec
CONSTANTS
    None = None
    NullText = NullText
    NoCall = NoCall
    f = f
    k = k
    v1 = v1
    v2 = v2
    a = a
    b = b
    Clients = {a, b}
    Listeners = {a, b}
    Exiting = {}
    Files = {f}
    Names = {k}
    Values = {v1, v2}
    Requests <- CallRequests
    MaxSlots = 2
    Capacity = 1
    MaxCrashes = 0
CHECK_DEADLOCK FALSE
INVARIANTS
    AnswerIsAwaited
    OwnChangeInCall
    
PROPERTIES
    CallReturns
    
