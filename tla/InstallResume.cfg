SPECIFICATION Spec
CONSTANTS
    p1 = p1
    p2 = p2
    p3 = p3
    Base = base
    None = none
    Procs <- MCProcs
    MaxVersion = 1
    Scenes <- MCResume
INVARIANTS
    LinksReachProducts
