SPECIFICATION Spec
CONSTANTS
    Windows = {panel, appA, appB, menu}
    Type <- MCType
    Panel = panel
    None = None
    panel = panel
    appA = appA
    appB = appB
    dlg = dlg
    popup = popup
    menu = menu
    MaxWindows = 3
    MaxGrab = 1
    MaxDepth = 1
INVARIANTS
    
    
    
    GrabJustified

    
