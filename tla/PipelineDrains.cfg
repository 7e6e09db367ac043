\* Liveness: the two messages of one group leave the queue, alone or in one batch, although runs
\* are killed and deletes lost.
SPECIFICATION FairSpec
CONSTANTS
  w1 = w1
  w2 = w2
  m1 = m1
  m2 = m2
  m3 = m3
  f1 = f1
  f2 = f2
  None = None
  Workers = {w1, w2}
  Messages = {m1, m3}
  Fingerprints = {f1, f2}
  Groups <- MCGroups
  Group <- MCGroup
  Clusters <- MCClusters
  Parseable = {m1, m3}
  Suppressed <- MCSuppressed
  MaxEscalations = 0
  BatchSize = 2
  Visibility = 1
  TTL = 2
  MaxReceive = 3
  Faults = {"kill", "delete"}
PROPERTIES QueueDrains
CHECK_DEADLOCK FALSE
