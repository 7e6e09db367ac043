------------------------------ MODULE WorkerBoot ------------------------------
(***************************************************************************)
(* getUseCase() of packages/worker/src/handler.ts: how a cold execution    *)
(* environment becomes a use case.  Secrets are read from SSM page by page *)
(* into the environment, loadConfig (shared/config/index.ts) validates it, *)
(* and the factories build the LLM provider, the notifier with its         *)
(* channels, and the rule engine.  createNotifier reads the rules file     *)
(* twice and createRuleEngine once more; somebody may edit it in between.  *)
(*                                                                         *)
(* env maps each variable to "unset" or to the kind of value it holds; ""  *)
(* is a variable that is set and empty, which zod does not take for unset. *)
(***************************************************************************)
EXTENDS RuleEngine

CONSTANTS
  Environments,   \* what the Lambda function or the pod is configured with
  SecretPages,    \* the pages GetParametersByPath returns, partial environments
  RuleFiles,      \* contents the rules file may have
  MayFail         \* may a page of SSM fail to load?

(* A rules file has two lists of rules, each with a list of actions.       *)
ASSUME RuleFilesAssumption ==
  \A f \in RuleFiles : \A rules \in {f.pre, f.post} :
    IsSequence(rules) /\ \A i \in DOMAIN rules : IsSequence(rules[i].actions)

VARIABLES
  env,      \* process.env
  page,     \* SSM pages read so far
  file,     \* the rules file on disk
  boot,     \* "cold", "factories", "channels", "references", "engine", "ready", "failed"
  failure,  \* why the last attempt failed
  registry, \* the channels that have a notifier of their own, by name
  engine,   \* the rules the engine was built from, a sequence of 0 or 1 files
  edited    \* history: the file changed during this attempt

bootVars == <<env, page, file, boot, failure, registry, engine, edited>>

-----------------------------------------------------------------------------
(* shared/config/index.ts.                                                 *)

Unset(v) == env[v] = "unset"
Given(v) == env[v] \notin {"unset", ""}

(* A setting, or its default when the variable is unset.                   *)
Setting(v, default) == IF Unset(v) THEN default ELSE env[v]

NotifierType == Setting("NOTIFIER_TYPE", "slack")
DedupStore == Setting("DEDUP_STORE", "dynamodb")
TriageEnabled == env["TRIAGE_ENABLED"] = "true"
RulesEnabled == Given("RULES_CONFIG_PATH")

(* resolveLlmModel: LLM_MODEL wins; Bedrock alone has another default.     *)
ModelGiven ==
  \/ Given("LLM_MODEL")
  \/ env["LLM_PROVIDER"] = "bedrock" /\ Given("BEDROCK_DEFAULT_MODEL")

(* What a variable may hold for the base schema to accept it.              *)
Accepted ==
  [LLM_PROVIDER         |-> {"gemini", "claude", "openrouter", "qwen", "bedrock", "vercel-gateway"},
   LLM_API_KEY          |-> {"unset", "key"},
   NOTIFIER_TYPE        |-> {"unset", "slack", "teams"},
   SLACK_BOT_TOKEN      |-> {"unset", "xoxb-"},
   SLACK_SIGNING_SECRET |-> {"unset", "secret"},
   SLACK_CHANNEL        |-> {"unset", "#"},
   TEAMS_WEBHOOK_URL    |-> {"unset", "url", "url?api-version"},
   DEDUP_STORE          |-> {"unset", "dynamodb", "redis"},
   DEDUP_TABLE_NAME     |-> {"unset", "table"},
   REDIS_URL            |-> {"unset", "url"},
   DEDUP_TTL_SECONDS    |-> {"unset", "positive"},
   SQS_QUEUE_URL        |-> {"unset", "", "url"},
   LOG_LEVEL            |-> {"unset", "level"},
   NODE_ENV             |-> {"unset", "environment"},
   TRIAGE_PROVIDER      |-> {"unset", "jev", "vercel-gateway"},
   TRIAGE_API_KEY       |-> {"unset", "key"},
   LLM_FALLBACK_TIMEOUT_MS |-> {"unset", "positive"}]

BaseValid == \A v \in DOMAIN Accepted : env[v] \in Accepted[v]

(* Mutant: superRefine forgets the Slack channel.                          *)
RefinedWithoutChannel ==
  /\ NotifierType = "slack" => Given("SLACK_BOT_TOKEN") /\ Given("SLACK_SIGNING_SECRET")
  /\ NotifierType = "teams" => env["TEAMS_WEBHOOK_URL"] = "url?api-version"
  /\ DedupStore = "dynamodb" => Given("DEDUP_TABLE_NAME")
  /\ DedupStore = "redis" => Given("REDIS_URL")
  /\ env["LLM_PROVIDER"] # "bedrock" => Given("LLM_API_KEY")
  /\ TriageEnabled =>
       /\ Given("TRIAGE_PROVIDER") /\ Given("TRIAGE_API_KEY")
       /\ env["TRIAGE_PROVIDER"] # "jev" => Given("TRIAGE_MODEL")

(* superRefine: what the chosen notifier, store, provider and triage need. *)
Refined ==
  /\ NotifierType = "slack" =>
       Given("SLACK_BOT_TOKEN") /\ Given("SLACK_CHANNEL") /\ Given("SLACK_SIGNING_SECRET")
  /\ NotifierType = "teams" => env["TEAMS_WEBHOOK_URL"] = "url?api-version"
  /\ DedupStore = "dynamodb" => Given("DEDUP_TABLE_NAME")
  /\ DedupStore = "redis" => Given("REDIS_URL")
  /\ env["LLM_PROVIDER"] # "bedrock" => Given("LLM_API_KEY")
  /\ TriageEnabled =>
       /\ Given("TRIAGE_PROVIDER") /\ Given("TRIAGE_API_KEY")
       /\ env["TRIAGE_PROVIDER"] # "jev" => Given("TRIAGE_MODEL")

-----------------------------------------------------------------------------
BootInit ==
  /\ env \in Environments
  /\ file \in RuleFiles
  /\ page = 0 /\ boot = "cold" /\ failure = "none"
  /\ registry = <<>> /\ engine = <<>>
  /\ edited = FALSE

FailBoot(why) ==
  /\ boot' = "failed"
  /\ failure' = why

(* loadSecretsFromSSM, one page: its parameters overwrite the variables.   *)
LoadPage ==
  /\ boot = "cold" /\ Given("SSM_PREFIX") /\ page < Len(SecretPages)
  /\ page' = page + 1
  /\ LET p == SecretPages[page + 1]
     IN  env' = [v \in DOMAIN env |-> IF v \in DOMAIN p THEN p[v] ELSE env[v]]
  /\ UNCHANGED <<file, boot, failure, registry, engine, edited>>

(* The request for a page fails: it is logged, and what was read stays.    *)
PageFails ==
  /\ MayFail
  /\ boot = "cold" /\ Given("SSM_PREFIX") /\ page < Len(SecretPages)
  /\ page' = Len(SecretPages)
  /\ UNCHANGED <<env, file, boot, failure, registry, engine, edited>>

(* loadConfig: throw, or go on to the factories.                           *)
ParseConfig ==
  /\ boot = "cold"
  /\ Given("SSM_PREFIX") => page = Len(SecretPages)
  /\ IF BaseValid /\ Refined
     THEN boot' = "factories" /\ UNCHANGED failure
     ELSE FailBoot("config")
  /\ edited' = FALSE
  /\ UNCHANGED <<env, page, file, registry, engine>>

(* The dedup store, the LLM and the triage provider.  VercelGatewayProvider*)
(* is the one constructor that asks for more than the schema does.         *)
BuildProviders ==
  /\ boot = "factories"
  /\ IF env["LLM_PROVIDER"] = "vercel-gateway" /\ ~ModelGiven
     THEN FailBoot("model")
     ELSE boot' = "channels" /\ UNCHANGED failure
  /\ UNCHANGED <<env, page, file, registry, engine, edited>>

(* buildChannelNotifier: Slack needs the token, Teams a URL in the variable*)
(* the channel names.                                                      *)
Reachable(ch) ==
  IF ch.type = "slack"
  THEN Given("SLACK_BOT_TOKEN")
  ELSE ch.envVar \in DOMAIN env /\ env[ch.envVar] = "url?api-version"

(* createNotifier up to the channel registry; the default notifier has     *)
(* what it needs because the configuration is refined.                     *)
BuildChannels ==
  /\ boot = "channels"
  /\ IF ~RulesEnabled
     THEN boot' = "engine" /\ registry' = <<>> /\ UNCHANGED failure
     ELSE IF Parses(file) /\ \A c \in DOMAIN file.channels : Reachable(file.channels[c])
     THEN boot' = "references" /\ registry' = file.channels /\ UNCHANGED failure
     ELSE FailBoot("rules") /\ UNCHANGED registry
  /\ UNCHANGED <<env, page, file, engine, edited>>

(* Mutant: only the channels of the pre-LLM section are looked up.         *)
CheckPreReferences ==
  /\ boot = "references"
  /\ IF Parses(file)
        /\ UNION {ChannelsOf(file.pre[i]) : i \in DOMAIN file.pre} \subseteq DOMAIN registry
     THEN boot' = "engine" /\ UNCHANGED failure
     ELSE FailBoot("rules")
  /\ UNCHANGED <<env, page, file, registry, engine, edited>>

(* collectUnresolvedChannels reads the file again.                         *)
CheckReferences ==
  /\ boot = "references"
  /\ IF Parses(file) /\ Referenced(file) \subseteq DOMAIN registry
     THEN boot' = "engine" /\ UNCHANGED failure
     ELSE FailBoot("rules")
  /\ UNCHANGED <<env, page, file, registry, engine, edited>>

(* createRuleEngine reads it a third time.                                 *)
BuildEngine ==
  /\ boot = "engine"
  /\ IF RulesEnabled /\ ~Parses(file)
     THEN FailBoot("rules") /\ UNCHANGED engine
     ELSE /\ boot' = "ready"
          /\ engine' = IF RulesEnabled THEN <<file>> ELSE <<>>
          /\ UNCHANGED failure
  /\ UNCHANGED <<env, page, file, registry, edited>>

(* getUseCase() threw: nothing is memoised, the next batch starts over.    *)
BootAgain ==
  /\ boot = "failed"
  /\ boot' = "cold" /\ page' = 0 /\ registry' = <<>> /\ failure' = "none"
  /\ UNCHANGED <<env, file, engine, edited>>

(* Somebody deploys another rules file.                                    *)
EditRules ==
  /\ boot \in {"channels", "references", "engine"} /\ RulesEnabled /\ ~edited
  /\ file' \in RuleFiles \ {file}
  /\ edited' = TRUE
  /\ UNCHANGED <<env, page, boot, failure, registry, engine>>

BootStep ==
  \/ LoadPage \/ PageFails \/ ParseConfig \/ BuildProviders \/ BuildChannels
  \/ CheckReferences \/ BuildEngine \/ BootAgain \/ EditRules

-----------------------------------------------------------------------------
(* loadConfig promises that no variable the process needs is missing later *)
(* ("No silent failures, no undefined values in the codebase").  Across    *)
(* the schema, five factories and a file edited meanwhile, a configuration *)
(* it accepted fails to boot only over the rules file or the model of the  *)
(* Vercel gateway; and what boots has every credential its notifiers use.  *)
BootExplained ==
  /\ failure = "model" => env["LLM_PROVIDER"] = "vercel-gateway" /\ ~Given("LLM_MODEL")
  /\ failure = "rules" => RulesEnabled
  /\ boot = "ready" =>
       /\ NotifierType = "slack" => Given("SLACK_BOT_TOKEN") /\ Given("SLACK_CHANNEL")
       /\ NotifierType = "teams" => env["TEAMS_WEBHOOK_URL"] = "url?api-version"
=============================================================================
