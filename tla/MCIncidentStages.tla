--------------------------- MODULE MCIncidentStages ---------------------------
(***************************************************************************)
(* A small worker: messages from Alertmanager and in CSV, whose alerts     *)
(* share fingerprints; three rules files; twenty environments of which     *)
(* most get one setting wrong.  One tick of the LLM's clock stands for     *)
(* 10 s.                                                                   *)
(***************************************************************************)
EXTENDS IncidentStages

MCLower == [s \in {"Checkout", "checkout", "search", "unknown-service", "/", "/pay", "/Pay",
                  "Error", "error", "warn", "odd"} |->
              CASE s = "Checkout" -> "checkout" [] s = "/Pay" -> "/pay" [] s = "Error" -> "error"
                [] OTHER -> s]

MCNumeral == [s \in {"0", "40", "70"} |-> CASE s = "0" -> 0 [] s = "40" -> 40 [] OTHER -> 70]

MCReading == [t1 |-> "t1", epoch |-> "t2", broken |-> "broken"]
MCInstant == [t1 |-> 1, t2 |-> 2, t3 |-> 3, now |-> 4]

MCCsvColumns == [service |-> 1, message |-> 2, severity |-> 3, timestamp |-> 4, endpoint |-> 5]

(* An alert of the payments service: where it is, when, how slow, traced.  *)
Pay(service, path, at, latency, trace) ==
  [status |-> "firing", startsAt |-> at, annotations |-> [endpoint |-> path],
   labels |-> [service |-> service, error_type |-> "http_500", latency_ms |-> latency,
               trace_id |-> trace]]

Search == [status |-> "firing", startsAt |-> "t2", annotations |-> <<>>,
           labels |-> [job |-> "search", alertname |-> "latency_spike", endpoint |-> "/"]]

Over == [status |-> "resolved", startsAt |-> "t1", annotations |-> <<>>, labels |-> <<>>]

(* Neither a service nor a type anybody knows.                             *)
Anonymous == [status |-> "firing", startsAt |-> "t1", annotations |-> <<>>, labels |-> <<>>]

Json(payload) == [format |-> "json", payload |-> payload]
Csv(lines) == [format |-> "csv", lines |-> lines]

MCMessages ==
  {Json(<<Pay("Checkout", "/pay", "t2", "40", "a"), Search, Over,
          Pay("checkout", "/Pay", "t1", "0", "b"), Pay("checkout", "/pay", "t3", "70", "c")>>),
   Json(<<Anonymous>>),
   Json(<<Pay("checkout", "/pay", "t1", "slow", "a"), Search>>),
   Csv(<<<<"service", "message", "severity", "timestamp", "endpoint">>,
         <<"search", "slow", "warn", "soon">>,
         <<"checkout", "down", "Error", "epoch", "/pay">>,
         <<"checkout", "down", "odd", "t1", "/pay">>,
         <<"checkout", "", "error", "t1", "/pay">>,
         <<"checkout", "down", "error", "broken", "/pay">>>>),
   Csv(<<<<"service", "message", "severity", "timestamp">>>>),
   [format |-> "text"]}

-----------------------------------------------------------------------------
MCQuiet ==
  [condition |-> [serviceName |-> "checkout", alertCount |-> [min |-> 0, max |-> 2]],
   actions |-> <<[type |-> "suppress"]>>]

MCPayments ==
  [condition |-> [serviceName |-> "checkout", alertType |-> "http_500"],
   actions |-> <<[type |-> "route", channel |-> "oncall"],
                 [type |-> "escalate", channel |-> "leads"],
                 [type |-> "tag", key |-> "team"]>>]

MCRollback ==
  [condition |-> [requiresRollback |-> TRUE],
   actions |-> <<[type |-> "escalate", channel |-> "platform"]>>]

MCFile ==
  [yaml |-> TRUE, pre |-> <<MCQuiet, MCPayments>>, post |-> <<MCRollback>>,
   channels |-> [oncall   |-> [type |-> "slack", hash |-> TRUE],
                 leads    |-> [type |-> "teams", envVar |-> "TEAMS_OPS_URL"],
                 platform |-> [type |-> "slack", hash |-> TRUE]]]

(* The post-LLM rule names a channel nobody defined.                       *)
MCDangling ==
  [MCFile EXCEPT !.channels = [oncall |-> [type |-> "slack", hash |-> TRUE],
                               leads  |-> [type |-> "teams", envVar |-> "TEAMS_OPS_URL"]]]

MCRuleFiles == {MCFile, MCDangling, [MCFile EXCEPT !.yaml = FALSE]}

-----------------------------------------------------------------------------
MCSlack ==
  [SSM_PREFIX |-> "unset", LLM_PROVIDER |-> "openrouter", LLM_API_KEY |-> "key",
   LLM_MODEL |-> "unset", BEDROCK_DEFAULT_MODEL |-> "unset",
   NOTIFIER_TYPE |-> "unset", SLACK_BOT_TOKEN |-> "xoxb-", SLACK_SIGNING_SECRET |-> "secret",
   SLACK_CHANNEL |-> "#", TEAMS_WEBHOOK_URL |-> "unset", TEAMS_OPS_URL |-> "url?api-version",
   DEDUP_STORE |-> "unset", DEDUP_TABLE_NAME |-> "table", REDIS_URL |-> "unset",
   DEDUP_TTL_SECONDS |-> "unset", RULES_CONFIG_PATH |-> "unset",
   TRIAGE_ENABLED |-> "unset", TRIAGE_PROVIDER |-> "unset", TRIAGE_MODEL |-> "unset",
   TRIAGE_API_KEY |-> "unset", WIDE_EVENTS_ENABLED |-> "unset", SQS_QUEUE_URL |-> "",
   LOG_LEVEL |-> "unset", NODE_ENV |-> "environment", LLM_FALLBACK_TIMEOUT_MS |-> "unset"]

MCRuled ==
  [MCSlack EXCEPT !.LLM_PROVIDER = "claude", !.RULES_CONFIG_PATH = "rules.yaml",
                  !.TRIAGE_ENABLED = "true", !.TRIAGE_PROVIDER = "jev", !.TRIAGE_API_KEY = "key",
                  !.LOG_LEVEL = "level", !.LLM_FALLBACK_TIMEOUT_MS = "positive"]

MCTeams ==
  [MCSlack EXCEPT !.LLM_PROVIDER = "gemini", !.NOTIFIER_TYPE = "teams",
                  !.TEAMS_WEBHOOK_URL = "url?api-version", !.DEDUP_STORE = "redis",
                  !.REDIS_URL = "url", !.TRIAGE_ENABLED = "true",
                  !.TRIAGE_PROVIDER = "vercel-gateway", !.TRIAGE_MODEL = "model",
                  !.TRIAGE_API_KEY = "key"]

(* Secrets in SSM, on two pages.                                           *)
MCLambda ==
  [MCSlack EXCEPT !.LLM_PROVIDER = "bedrock", !.LLM_API_KEY = "unset",
                  !.BEDROCK_DEFAULT_MODEL = "nova", !.SSM_PREFIX = "/junando",
                  !.SLACK_BOT_TOKEN = "unset", !.SLACK_CHANNEL = "unset"]

MCSecretPages == <<[SLACK_BOT_TOKEN |-> "xoxb-"],
                   [SLACK_CHANNEL |-> "#", RULES_CONFIG_PATH |-> "rules.yaml"]>>

MCVercel == [MCSlack EXCEPT !.LLM_PROVIDER = "vercel-gateway", !.WIDE_EVENTS_ENABLED = "false"]

MCEnvironments ==
  {MCSlack, MCRuled, MCTeams, MCLambda, MCVercel, [MCVercel EXCEPT !.LLM_MODEL = "model"],
   [MCSlack EXCEPT !.LLM_PROVIDER = "gpt"], [MCSlack EXCEPT !.LLM_API_KEY = "unset"],
   [MCSlack EXCEPT !.SLACK_BOT_TOKEN = "other"], [MCSlack EXCEPT !.SLACK_CHANNEL = "unset"],
   [MCSlack EXCEPT !.SLACK_SIGNING_SECRET = ""], [MCSlack EXCEPT !.TEAMS_WEBHOOK_URL = ""],
   [MCSlack EXCEPT !.DEDUP_TABLE_NAME = "unset"], [MCTeams EXCEPT !.REDIS_URL = "unset"],
   [MCTeams EXCEPT !.TEAMS_WEBHOOK_URL = "url"], [MCTeams EXCEPT !.TRIAGE_MODEL = "unset"],
   [MCSlack EXCEPT !.SQS_QUEUE_URL = "name"], [MCSlack EXCEPT !.LOG_LEVEL = "verbose"],
   [MCTeams EXCEPT !.NODE_ENV = ""], [MCRuled EXCEPT !.LLM_FALLBACK_TIMEOUT_MS = "zero"]}

-----------------------------------------------------------------------------
MCText(json, cause, urgency, steps) ==
  [blank |-> FALSE, json |-> json, cause |-> cause, urgency |-> urgency, steps |-> steps]

MCTexts ==
  {MCText(TRUE, TRUE, "valid", "list"),     \* what the prompt asks for
   MCText(FALSE, TRUE, "valid", "list"),    \* JSON with prose around it
   MCText(FALSE, TRUE, "invalid", "list"),  \* an urgency nobody knows
   MCText(FALSE, FALSE, "none", "none"),    \* prose
   [MCText(FALSE, FALSE, "none", "none") EXCEPT !.blank = TRUE]}

MCAnalyses ==
  {[given |-> TRUE, urgency |-> "critical", rollback |-> TRUE, services |-> {"search"}],
   [given |-> TRUE, urgency |-> "low", rollback |-> FALSE, services |-> {}]}

MCConfigured == <<"m0", "m1", "m2", "m3">>
=============================================================================
