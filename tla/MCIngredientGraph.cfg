SPECIFICATION Spec
CONSTANTS
  None = None
  Labels = {1, 2, 3, 4, 5}
  Active = 1
  Stores <- MCStores
  LimitSets <- MCLimits
INVARIANTS EachManifestChargedOnce CompleteUnlessReported DepthIsShortest
  RedactionsKnownBeforeUse DeltasAgainstFullVerdict
CHECK_DEADLOCK FALSE
