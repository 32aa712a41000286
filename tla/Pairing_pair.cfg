SPECIFICATION Spec
CONSTANTS
    Phones = {p1, p2}
    Unsteady = {p2}
    Urls = {u1, u2}
    Mcp = Mcp
    None = None
    CutShort = {p2}
    MaxScans = 3
    MaxStarts = 2
CHECK_DEADLOCK FALSE

    
PROPERTIES
    PairingIsForLife
