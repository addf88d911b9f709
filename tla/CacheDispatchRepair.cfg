SPECIFICATION Spec
CONSTANTS
  Procs = {p1, p2}
  p1 = p1
  p2 = p2
  Old = Old
  NoFile = NoFile
  Modes = {"cache"}
  InitialEntries = {"corrupt"}
  Payloads = {"sound"}
  Faults = {}
INVARIANTS
  SoundLaunchSucceeds
CHECK_DEADLOCK FALSE
SYMMETRY Symmetry
