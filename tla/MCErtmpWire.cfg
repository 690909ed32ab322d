SPECIFICATION WireSpec
CONSTANTS
  None = None
  Messages <- MCMessages
  Strays <- MCStrays
  Tags <- MCTags
  ChunkSizes = {1}
  Csids = {2, 3, 4}
  MaxCsid = 4
  ControlLength = 2
  Wrap = 8
  Marker = 3
  MaxMessage = 3
  MaxBuffered = 6
  MaxStreams = 3
  MaxSinkEvents = 4
  MaxChunkSize = 2
  MaxSent = 3
  MaxConnections = 2
CHECK_DEADLOCK FALSE
INVARIANTS ConformingStreamIsDelivered NoMessageIsSpliced BufferedIsHeld
