SPECIFICATION Spec
CONSTANTS
  None = None
  Assets = {a1, a2}
  Refused = {a2}
  Trusts = {t1, t2, t3}
  Instants = {}
  Rests = {r1}
  Capacities = {0, 2}
  Ttls = {0, 2}
  MaxTime = 2
  MaxOps = 5
SYMMETRY TrustSymmetry
INVARIANTS OrderListsTheMap 
PROPERTY EvictsLeastRecentlyUsed
CHECK_DEADLOCK FALSE
