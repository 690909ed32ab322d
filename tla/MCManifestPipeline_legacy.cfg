SPECIFICATION Spec
CONSTANTS
  None = None
  Instants = {"T0", "T1", "Now"}
  Now = "Now"
  Calls <- MCCalls
CHECK_DEADLOCK FALSE
INVARIANT IntegrityMeansBound
