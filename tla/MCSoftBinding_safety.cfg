CONSTANTS
    Origins = {service, foreign}
    Allowed = {service}
    Algorithms = {watermark}
    ManifestIds = {m1}
    MaxResults = 2
    MaxSpurious = 1
    Malformed = Malformed
    None = None
SPECIFICATION Spec
INVARIANTS RequestsStayAllowed DisclosesWithConsent RecoveredInOrder NativeComplete
PROPERTY NativeReturns
CHECK_DEADLOCK FALSE
