\* The worker alone: the polls the interval starts overlap, and SIGTERM awaits one of them.
SPECIFICATION SelfHostedSpec
CONSTANTS
  r1 = r1
  r2 = r2
  p1 = p1
  p2 = p2
  m1 = m1
  m2 = m2
  g1 = g1
  g2 = g2
  None = None
  Nothing = Nothing
  Requests = {r1, r2}
  Inputs <- MCInputs
  Environments <- MCEnvironments
  MaxConcurrent = 1
  Polls = {p1, p2}
  Messages = {m1, m2}
  Parseable = {m1}
  BatchSize = 2
  MaxStarts = 2
  Sigterms = {g1, g2}
  Rules = {"q1", "q2"}
  Interval = 2
  Jitter = 1
  Horizon = 6
  Signals = {"SIGTERM", "SIGINT"}
  Kinds = {"loki", "prometheus"}
  Posters <- MCPosters
  Lines <- MCLines
  MaxBufferEntries = 2
  Roles = {"worker"}
INVARIANT DrainsBeforeExit
CHECK_DEADLOCK FALSE
