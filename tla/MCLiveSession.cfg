CONSTANTS
    Segments <- MCSegments
    Deliveries <- MCDeliveries
    Times = {1, 2}
    MaxU64 = 3
    MaxKeys = 2
    MaxCandidates = 2
    MaxSegments = 3
    None = None
SPECIFICATION Spec
CHECK_DEADLOCK FALSE
INVARIANTS ValidStreamIsContinuous AcceptedIdsNameOneSegment GapReportedOnce
