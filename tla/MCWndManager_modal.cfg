SPECIFICATION Spec
CONSTANTS
    Windows = {panel, appA, dlg}
    Type <- MCType
    Panel = panel
    None = None
    panel = panel
    appA = appA
    appB = appB
    dlg = dlg
    popup = popup
    menu = menu
    MaxWindows = 5
    MaxGrab = 2
    MaxDepth = 2
INVARIANTS
    
    GrabPaired
    
