\* Redelivery, lost responses, failing deletes, two signal handlers, a restart.
SPECIFICATION RuntimeSpec
CONSTANTS
  m1 = m1
  m2 = m2
  s1 = s1
  s2 = s2
  Messages = {m1, m2}
  Stoppers = {s1, s2}
  BatchSize = 2
  MaxInFlight = 2
  MaxReceives = 2
  MaxStarts = 2
  Paths = {"indexing"}
  Undecodable = {}
INVARIANTS InFlightBound WaitsOnlyWhenFull DeletedWereProcessed StopDrains IndexedBeforeDeleted
SYMMETRY Sym
CHECK_DEADLOCK FALSE
