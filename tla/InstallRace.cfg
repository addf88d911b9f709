SPECIFICATION Spec
CONSTANTS
    p1 = p1
    p2 = p2
    p3 = p3
    Base = base
    None = none
    Procs <- MCProcs
    MaxVersion = 2
    Scenes <- MCRace
SYMMETRY MCSymmetry
INVARIANTS
    LinksReachProducts
PROPERTIES
    NothingUnasked
