\* One slot in flight, so that the loop waits for capacity; one message the mapper rejects.
SPECIFICATION RuntimeFairSpec
CONSTANTS
  m1 = m1
  m2 = m2
  s1 = s1
  Messages = {m1, m2}
  Stoppers = {s1}
  BatchSize = 2
  MaxInFlight = 1
  MaxReceives = 2
  MaxStarts = 1
  Paths = {"indexing", "traceability"}
  Undecodable = {m1}
INVARIANT TypeOK
PROPERTIES StopResolves Taken
CHECK_DEADLOCK FALSE
