\* Small machine: 12-bit integers, pages of 16 bytes, a reserve of 20 bytes.
CONSTANTS
    MaxInt64 = 4095
    UnlimitedThreshold = 2000
    DefaultMinHeadroom = 20
    Page = 16
    MaxPayloadSize = 100
    Scenes <- StartScenes
SPECIFICATION Spec
INVARIANT SelectionIsBest
INVARIANT TuningIsSafe
INVARIANT UserSettingsWin
INVARIANT ReportsMatchLaunch
INVARIANT ByteSizeIsExact
CHECK_DEADLOCK FALSE
