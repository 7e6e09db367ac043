\* One worker boots and handles clusters; both wirings of the fallback chain.
SPECIFICATION StagesSpec
CONSTANTS
  Lower <- MCLower
  Messages <- MCMessages
  Numeral <- MCNumeral
  Reading <- MCReading
  Instant <- MCInstant
  CsvColumns <- MCCsvColumns
  MaxClusters = 4
  TriageAnswers = {"low", "LOW", "critical", "nonsense"}
  Environments <- MCEnvironments
  SecretPages <- MCSecretPages
  RuleFiles <- MCRuleFiles
  MayFail = TRUE
  Providers = {"openrouter", "claude", "gemini", "bedrock", "vercel-gateway"}
  Primary = "m0"
  Configured <- MCConfigured
  Wirings = {TRUE, FALSE}
  FallbackTimeout = 6
  Delays = {0, 3}
  MaxDelay = 3
  Backoffs = {1, 3}
  MaxBackoff = 3
  AbortAfter = 3
  BreakerTimeout = 1
  Texts <- MCTexts
  Analyses <- MCAnalyses
INVARIANTS
  StagesTypeOK
  BootExplained
  RequestsBounded
  CallBounded
  OutcomeIsTruth
  NoSilentReroute
  EscalationsSurvive
  FailuresLeaveATrace
  DuplicateExplained
  EveryAlertCounted
CHECK_DEADLOCK FALSE
