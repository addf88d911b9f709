CONSTANTS
    AbiLimits <- MCLimits
    ChunkSize = 4
    WindowSize = 64
    MaxWord = 20000
    MaxDisplay = 4
    MaxItems = 2
    GenerationIds = {"g1", "g2"}
    HostArch = "amd64"
    Workers = 2
    Scenes <- MCScenes
    HostOf <- MCHostOf
    Elf <- MCElf
    Declares <- MCDeclares
SPECIFICATION Spec
INVARIANTS
    InspectionIsAccounted
    AcceptedVariantsAgree
    PackagedMatchesManifest
    ReportedErrorIsTheCause
    StubBelongsToInstallation
    CompressionFollowsPrecedence
    EncodersFit
