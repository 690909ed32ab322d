SPECIFICATION Spec
CONSTANTS
    NumTracks = 2
    ChunkStreams = {1}
    Timestamps = {1}
    CodedData = {"d"}
    Payloads <- MCTracksPayloads
    Stores <- MCTracksStores
    ManifestIds = {"m1"}
    KeyIds = {"k1", "k2"}
    Signers = {"s1","s2"}
    MaxSequence = 2
    MaxTracks = 2
    MaxFrames = 2
    MaxSegmentInfos = 2
    MaxEvents = 9
    MaxFailureKinds = 0
    None = None
INVARIANTS
    ConsecutiveSequences
    OneTrackPerKey
    ValidCoversEveryFrame
    ClosesAuthenticatedFrames
PROPERTY SequenceAndKeysSurvive
CHECK_DEADLOCK FALSE
