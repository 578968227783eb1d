SPECIFICATION Spec
CONSTANTS
    Primary = primary
    Clients = {longPress, fdSource}
    Owner <- MCOwner
    Kind <- MCKind
    primary = primary
    longPress = longPress
    entry = entry
    textView = textView
    waitBox = waitBox
    dialog = dialog
    marquee = marquee
    fdSource = fdSource
    idleSource = idleSource
    appTimer = appTimer
    MaxSources = 4
    PipeSize = 3
    MaxRef = 4
    MaxDisable = 2
    MaxDepth = 2
    FdErrors = FALSE
INVARIANTS
    ReselectAfterChange
