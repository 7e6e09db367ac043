\* Two requests for one slot, two polls over a restart, two rules over three ticks.
SPECIFICATION SelfHostedFairSpec
CONSTANTS
  r1 = r1
  r2 = r2
  p1 = p1
  p2 = p2
  m1 = m1
  m2 = m2
  g1 = g1
  None = None
  Nothing = Nothing
  Requests = {r1, r2}
  Inputs <- MCInputs
  Environments <- MCEnvironments
  MaxConcurrent = 1
  Polls = {p1, p2}
  Messages = {m1, m2}
  Parseable = {m1}
  BatchSize = 2
  MaxStarts = 2
  Sigterms = {g1}
  Rules = {"q1", "q2"}
  Interval = 2
  Jitter = 1
  Horizon = 6
  Signals = {"SIGTERM", "SIGINT"}
  Kinds = {"loki", "prometheus"}
  Posters <- MCPosters
  Lines <- MCLines
  MaxBufferEntries = 2
  Roles = {"webhook", "worker", "ingest"}
INVARIANTS SelfHostedTypeOK LinesAccountedFor AcceptedIsQueued RollbackToldTruly RequestsDrain
  DeletedWasAnnounced CutOnlyWhenOverlapped NoGapBetweenWindows RunnerDrains
PROPERTY SigtermEndsProcess
CHECK_DEADLOCK FALSE
