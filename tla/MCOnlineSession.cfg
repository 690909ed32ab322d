SPECIFICATION Spec
CONSTANTS
  None = None
  Uris = {"a", "b", "p"}
  Bodies = {"leaf", "chain", "again", "nested", "graph", "torn", "bad", "doc", "junk"}
  Content <- MCContent
  Limits <- MCLimits
  PlainHttp = {"p"}
  Pinned = {"b"}
  Evidence <- MCEvidence
  Consents <- MCConsents
  OcspLists <- MCOcspLists
  Limit <- MCLimit
  MaxRequests = 3
  MaxReceived = 4
INVARIANTS DiscoveryAndPassAgree ConsentGoverns WithinBudget CompleteUnlessStopped
PROPERTIES ImplementsOutcomeMap Terminates
