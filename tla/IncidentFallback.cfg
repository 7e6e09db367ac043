\* The fallback chain as the composition roots wire it.
SPECIFICATION StagesSpec
CONSTANTS
  Lower <- MCLower
  Messages <- MCMessages
  Numeral <- MCNumeral
  Reading <- MCReading
  Instant <- MCInstant
  CsvColumns <- MCCsvColumns
  MaxClusters = 2
  TriageAnswers = {"low", "LOW", "critical", "nonsense"}
  Environments <- MCEnvironments
  SecretPages <- MCSecretPages
  RuleFiles <- MCRuleFiles
  MayFail = TRUE
  Providers = {"openrouter", "claude", "gemini", "bedrock", "vercel-gateway"}
  Primary = "m0"
  Configured <- MCConfigured
  Wirings = {FALSE}
  FallbackTimeout = 6
  Delays = {0, 3}
  MaxDelay = 3
  Backoffs = {1, 3}
  MaxBackoff = 3
  AbortAfter = 3
  BreakerTimeout = 1
  Texts <- MCTexts
  Analyses <- MCAnalyses
INVARIANT
  FallbackTried
CHECK_DEADLOCK FALSE
