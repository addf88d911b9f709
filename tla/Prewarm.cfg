\* Two payloads of two and three bytes, up to three levels, three commands, one interference.
CONSTANTS
    p1 = p1
    p2 = p2
    p3 = p3
    Procs <- MCProcs
    Digests <- MCDigests
    SizeOf <- MCSizeOf
    Decoders <- MCDecoders
    Scenes <- PrewarmScenes
SPECIFICATION Spec
INVARIANT PlanPredictsPrewarm
INVARIANT PreparedIsFound
INVARIANT OnlyAdmittedIsWritten
