\* Every fault but an unreachable store: kills, lost replies, failed releases.
SPECIFICATION Spec
CONSTANTS
  w1 = w1
  w2 = w2
  m1 = m1
  m2 = m2
  m3 = m3
  f1 = f1
  f2 = f2
  None = None
  Workers = {w1, w2}
  Messages = {m1, m2}
  Fingerprints = {f1, f2}
  Groups <- MCGroups
  Group <- MCGroup
  Clusters <- MCClusters
  Parseable <- MCParseable
  Suppressed <- MCSuppressed
  MaxEscalations = 1
  BatchSize = 2
  Visibility = 2
  TTL = 3
  MaxReceive = 2
  Faults = {"boot", "reply", "reset", "delete", "kill"}
INVARIANTS NoSilentLoss ExclusiveProcessing
PROPERTIES ReleaseOwnClaim
SYMMETRY WorkerSymmetry
CHECK_DEADLOCK FALSE
