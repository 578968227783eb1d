SPECIFICATION FairSpec
CONSTANTS
    None = None
    fconf = fconf
    other = other
    p1 = p1
    p2 = p2
    p3 = p3
    p4 = p4
    Services = {fconf, other}
    OnLoad = {fconf}
    Pids = {p1, p2, p3, p4}
INVARIANTS
    SingleInstance
    StopedIsGone
PROPERTIES
    DeathIsNoticed
