SPECIFICATION Spec
CONSTANTS
    NumTracks = 2
    ChunkStreams = {1, 2}
    Timestamps = {1}
    CodedData = {"d"}
    Payloads <- MCBindingPayloads
    Stores <- MCBindingStores
    ManifestIds = {"m1"}
    KeyIds = {"k1"}
    Signers = {"s1"}
    MaxSequence = 1
    MaxTracks = 1
    MaxFrames = 2
    MaxSegmentInfos = 2
    MaxEvents = 6
    MaxFailureKinds = 1
    None = None
INVARIANTS
    SegmentStaysOnConnection
    AcceptedUnderBoundManifest
CHECK_DEADLOCK FALSE
