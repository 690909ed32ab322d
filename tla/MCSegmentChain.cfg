CONSTANTS
    Segments <- MCSegments
    Labels <- MCLabels
    Hashes <- MCHashes
    StreamIds = {"a", "b"}
    MaxU64 = 2
    MaxSegments = 4
    NoManifest = NoManifest
    Bad = Bad
    None = None
SPECIFICATION Spec
CHECK_DEADLOCK FALSE
INVARIANTS ValidChainIsLinked BreaksReportedWhereTheyAre
