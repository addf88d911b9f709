SPECIFICATION Spec
CONSTANTS
  Procs = {p1, p2}
  p1 = p1
  p2 = p2
  Old = Old
  NoFile = NoFile
  Modes = {"auto", "cache", "memfd", "prewarm"}
  InitialEntries = {"missing", "good", "corrupt", "noexec", "unsafe"}
  Payloads = {"sound", "damaged"}
  Faults = {"budget", "memfd_create", "memfd_write", "memfd_seal", "memfd_exec", "dir", "open", "inspect", "read", "unlink", "io", "cache_exec", "crash"}
INVARIANTS
  RunsVerifiedImage
  PublishedIsComplete
  NothingLeftBehind
  EachPathTriedOnce
PROPERTIES
  ImplementsContract
CHECK_DEADLOCK FALSE
