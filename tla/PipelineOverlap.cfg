\* No fault at all: two groups carry the same fingerprint.
SPECIFICATION Spec
CONSTANTS
  w1 = w1
  w2 = w2
  m1 = m1
  m2 = m2
  m3 = m3
  f1 = f1
  f2 = f2
  None = None
  Workers = {w1, w2}
  Messages = {m1, m2}
  Fingerprints = {f1, f2}
  Groups <- MCGroups
  Group <- MCGroup
  Clusters <- MCClusters
  Parseable <- MCParseable
  Suppressed <- MCSuppressed
  MaxEscalations = 0
  BatchSize = 1
  Visibility = 1
  TTL = 2
  MaxReceive = 2
  Faults = {}
INVARIANTS OneRunPerFingerprint
CHECK_DEADLOCK FALSE
