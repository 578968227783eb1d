SPECIFICATION FairSpec
CONSTANTS
    Primary = primary
    Clients = {marquee, idleSource}
    Owner <- MCOwner
    Kind <- MCKind
    primary = primary
    longPress = longPress
    entry = entry
    textView = textView
    waitBox = waitBox
    dialog = dialog
    marquee = marquee
    fdSource = fdSource
    idleSource = idleSource
    appTimer = appTimer
    MaxSources = 3
    PipeSize = 2
    MaxRef = 3
    MaxDisable = 1
    MaxDepth = 2
    FdErrors = FALSE
INVARIANTS
    OwnPipeNeverBlocks
PROPERTIES
    QuitLeavesLoop
    DueTimerIsServed
    
