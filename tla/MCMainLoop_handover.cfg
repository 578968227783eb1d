SPECIFICATION Spec
CONSTANTS
    Primary = primary
    Clients = {dialog, waitBox, fdSource}
    Owner <- MCOwner
    Kind <- MCKind
    primary = primary
    longPress = longPress
    entry = entry
    textView = textView
    waitBox = waitBox
    dialog = dialog
    marquee = marquee
    fdSource = fdSource
    idleSource = idleSource
    appTimer = appTimer
    MaxSources = 3
    PipeSize = 2
    MaxRef = 3
    MaxDisable = 2
    MaxDepth = 1
    FdErrors = TRUE
INVARIANTS
    ReselectAfterChange
    
