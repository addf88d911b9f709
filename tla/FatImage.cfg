SPECIFICATION Spec
CONSTANTS
    MaxInt = 15
    MaxVariants = 2
    Levels = {"v1", "v3"}
    TrailerSize = 1
    HeaderSize = 1
    DigestSize = 1
    EntrySize = 1
    MaxIndexSize = 4
    MaxPayloadSize = 4
    MaxDictionarySize = 2
    Images <- MCImages
CHECK_DEADLOCK FALSE
INVARIANT AcceptedIsSound
INVARIANT TrimmedIsReadable
