SPECIFICATION Spec
CONSTANTS
    p1 = p1
    p2 = p2
    p3 = p3
    Base = base
    None = none
    Procs <- MCProcs
    MaxVersion = 2
    Scenes <- MCFaults
INVARIANTS
    SelectedIsComplete
PROPERTIES
    InterruptionsAreRecoverable
    IsDurableHistory
    OutcomeMeansIt
    Termination
