SPECIFICATION FairSpec
CONSTANTS
  Procs = {p1, p2, p3}
  p1 = p1
  p2 = p2
  p3 = p3
  Old = Old
  NoFile = NoFile
  Modes = {"auto", "cache", "prewarm"}
  InitialEntries = {"missing", "good", "noexec"}
  Payloads = {"sound"}
  Faults = {}
INVARIANTS
  SoundLaunchSucceeds
PROPERTIES
  EntrySettles
CHECK_DEADLOCK FALSE
