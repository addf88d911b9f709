SPECIFICATION Spec
CONSTANTS
    p1 = p1
    p2 = p2
    p3 = p3
    Orig = orig
    Ext = ext
    NoFile = none
    Procs <- MCProcs
    Scenes <- MCScenes
INVARIANTS
    PublishedIsSound
    SomeoneSucceeds
PROPERTIES
    IsDurableHistory
    ReplacesOnlyWhatItRead
    Termination
