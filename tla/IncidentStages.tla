---------------------------- MODULE IncidentStages ----------------------------
(***************************************************************************)
(* What the worker does with one message after another, and                *)
(* ProcessIncidentUseCase.execute with the clusters of each: the           *)
(* composition of a booted worker (WorkerBoot), what messages turn into    *)
(* (AlertSources), the rule engine, the LLM provider (LlmProviders), the   *)
(* triage providers, the Slack and Teams adapters behind the               *)
(* RoutingNotifier, and the wide event of a cluster.  IncidentPipeline has *)
(* the queue, the retries and the crashes around it; here one executor     *)
(* runs, and each step of a cluster is an action.                          *)
(***************************************************************************)
EXTENDS LlmProviders, WorkerBoot, AlertSources

CONSTANTS
  Messages,      \* the messages that may arrive
  MaxClusters,   \* bound: clusters taken on in a behaviour
  TriageAnswers  \* what the triage request may end with

(* A payload is an array of alerts; split() returns at least one line.     *)
ASSUME StagesAssumption ==
  /\ MaxClusters \in Nat
  /\ \A m \in Messages :
       /\ m.format = "json" => IsSequence(m.payload)
       /\ m.format = "csv" => IsSequence(m.lines) /\ m.lines # <<>>

VARIABLES
  stage,    \* where execute() is: "idle" or the step it does next
  taken,    \* clusters taken on so far
  alerts,   \* the alerts of the message at hand
  left,     \* its clusters that execute() has not reached
  cluster,  \* the cluster at hand, <<>> before the first
  claims,   \* per fingerprint, the dedup claim and what became of its holder
  routed,   \* the pre-LLM result
  analysis, \* LLMAnalysis, or NoAnalysis for null
  llmError, \* did analyze() throw?
  degraded, \* llmDegradedReason
  targets,  \* the channels still to be notified, "" for the default notifier
  sent,     \* the messages whose backend call succeeded
  outcome,  \* how the last cluster ended
  event,    \* the fields of its wide event that were logged, {} if none was
  ended     \* history: the clusters of the message that have ended

clusterVars == <<cluster, taken, alerts>>
findingVars == <<analysis, llmError, degraded>>
noticeVars  == <<targets, sent>>
resultVars  == <<outcome, event>>
stagesVars  == <<stage, clusterVars, left, ended, claims, routed, findingVars, noticeVars, resultVars>>
vars        == <<stagesVars, bootVars, llmVars>>

(* What became of the claim on a fingerprint.  All but "free" are held.    *)
ClaimStates == {"free", "running", "suppressed", "notified", "stuck"}

Fingerprints ==
  UNION {{Fingerprint(AlertsOf(m)[i]) : i \in DOMAIN AlertsOf(m)} : m \in Messages}

StagesInit ==
  /\ BootInit
  /\ LlmInit
  /\ env["LLM_PROVIDER"] \in Providers => provider = env["LLM_PROVIDER"]
  /\ stage = "idle" /\ taken = 0 /\ cluster = <<>>
  /\ alerts = <<>> /\ left = <<>> /\ ended = <<>>
  /\ claims = [f \in Fingerprints |-> "free"]
  /\ routed = PassThrough
  /\ analysis = NoAnalysis /\ llmError = FALSE /\ degraded = "none"
  /\ targets = <<>> /\ sent = <<>>
  /\ outcome = "none" /\ event = {}

-----------------------------------------------------------------------------
(* Wide events: shared/logger/sampling.ts, redaction.ts and                *)
(* wide-event-builder.ts.                                                  *)

WideEvents == env["WIDE_EVENTS_ENABLED"] # "false"

(* SAFE_FIELDS.                                                            *)
SafeFields == {"requestId", "correlationId", "timestamp", "component", "version", "outcome",
               "cluster", "dedup", "rule", "llm", "triage", "notify", "rollback",
               "durationMs", "error"}

(* Mutant: everything the event holds is logged.                           *)
Unredacted(fields) == fields

(* redact(): a field outside the whitelist loses its value.                *)
Redacted(fields) == fields \intersect SafeFields

(* The sections execute() has set by the time it emits, and the mark of    *)
(* the size guard when the event was too long.                             *)
EventFields(o, error, long) ==
  {"requestId", "component", "timestamp", "correlationId", "cluster", "dedup",
   "outcome", "durationMs"}
    \union (IF error THEN {"error"} ELSE {})
    \union (IF engine # <<>> THEN {"rule"} ELSE {})
    \union (IF o # "suppressed" THEN {"notify"} ELSE {})
    \union (IF o # "suppressed" /\ TriageEnabled THEN {"triage"} ELSE {})
    \union (IF o # "suppressed" /\ ~llmError THEN {"llm"} ELSE {})
    \union (IF long THEN {"_truncated"} ELSE {})

(* Mutant: an event without an error and not slow is left to chance.       *)
SampledErrors(o, error, slow, lucky) == error \/ slow \/ lucky

(* shouldSample: the rest is a matter of luck (5 %).                       *)
ShouldSample(o, error, slow, lucky) == error \/ slow \/ o = "degraded" \/ lucky

(* emit(): the end of a cluster, and of the loop when the cluster failed.  *)
Emit(o, error) ==
  /\ stage' = "idle"
  /\ outcome' = o
  /\ left' = IF o = "error" THEN <<>> ELSE left
  /\ ended' = Append(ended, cluster)
  /\ \E slow, lucky, long \in BOOLEAN :
       event' = IF WideEvents /\ ShouldSample(o, error, slow, lucky)
                THEN Redacted(EventFields(o, error, long)) ELSE {}

-----------------------------------------------------------------------------
(* Deduplication.                                                          *)

Claim == claims[cluster.fingerprint]
SetClaim(s) == claims' = [claims EXCEPT ![cluster.fingerprint] = s]

(* The holder's fate: only a claim this cluster still holds is marked.     *)
MarkClaim(s) == IF Claim = "running" THEN SetClaim(s) ELSE UNCHANGED claims

(* The next message: execute() builds its clusters.  It may be one that    *)
(* came before, delivered again.                                           *)
TakeMessage ==
  /\ boot = "ready" /\ stage = "idle" /\ left = <<>>
  /\ \E m \in Messages :
       /\ alerts' = AlertsOf(m)
       /\ left' = BuildClusters(AlertsOf(m))
  /\ left' # <<>> /\ taken + Len(left') <= MaxClusters
  /\ taken' = taken + Len(left')
  /\ ended' = <<>>
  /\ UNCHANGED <<bootVars, llmVars, stage, cluster, claims, routed, findingVars, noticeVars,
                 resultVars>>

(* One turn of the loop over the clusters.                                 *)
Consider ==
  /\ stage = "idle" /\ left # <<>>
  /\ cluster' = Head(left) /\ left' = Tail(left)
  /\ stage' = "dedup"
  /\ routed' = PassThrough
  /\ analysis' = NoAnalysis /\ llmError' = FALSE /\ degraded' = "none"
  /\ targets' = <<>> /\ sent' = <<>>
  /\ outcome' = "none" /\ event' = {}
  /\ UNCHANGED <<bootVars, llmVars, taken, alerts, claims, ended>>

(* isNew() claims the fingerprint, or finds the store broken and lets the  *)
(* cluster through without a claim.                                        *)
IsNew ==
  /\ stage = "dedup"
  /\ \/ Claim = "free" /\ SetClaim("running")
     \/ MayFail /\ UNCHANGED claims
  /\ stage' = "rules"
  /\ UNCHANGED <<bootVars, llmVars, clusterVars, left, ended, routed, findingVars, noticeVars, resultVars>>

(* Mutant: a duplicate ends the loop.                                      *)
DuplicateReturns ==
  /\ stage = "dedup" /\ Claim # "free"
  /\ outcome' = "duplicate" /\ degraded' = Claim
  /\ stage' = "idle" /\ left' = <<>>
  /\ ended' = Append(ended, cluster)
  /\ UNCHANGED <<bootVars, llmVars, clusterVars, claims, routed, analysis, llmError,
                 noticeVars, event>>

(* A duplicate gets no event; degraded holds the fate of the claim's owner.*)
IsDuplicate ==
  /\ stage = "dedup" /\ Claim # "free"
  /\ outcome' = "duplicate" /\ degraded' = Claim
  /\ stage' = "idle"
  /\ ended' = Append(ended, cluster)
  /\ UNCHANGED <<bootVars, llmVars, clusterVars, left, claims, routed, analysis, llmError,
                 noticeVars, event>>

(* The TTL runs out, whoever holds the claim.                              *)
ClaimExpires ==
  /\ \E f \in DOMAIN claims : claims[f] # "free" /\ claims' = [claims EXCEPT ![f] = "free"]
  /\ UNCHANGED <<bootVars, llmVars, stage, clusterVars, left, ended, routed, findingVars, noticeVars, resultVars>>

-----------------------------------------------------------------------------
(* Rules, traces, triage and the LLM.                                      *)

Rules(section) == IF engine = <<>> THEN <<>> ELSE engine[1][section]

(* A suppressed cluster ends here and keeps its claim.                     *)
EvaluatePreLlm ==
  /\ stage = "rules"
  /\ routed' = Evaluate(Rules("pre"), cluster, NoAnalysis)
  /\ IF routed'.suppressed
     THEN Emit("suppressed", FALSE) /\ MarkClaim("suppressed")
     ELSE stage' = "triage" /\ UNCHANGED <<left, ended, claims, resultVars>>
  /\ UNCHANGED <<bootVars, llmVars, clusterVars, findingVars, noticeVars>>

(* A triage provider's answer: Jev takes the label as it is, the Vercel    *)
(* gateway trims it and ignores case; everything else counts as medium.    *)
Classified(answer) ==
  CASE answer \in Urgencies -> answer
    [] answer = "LOW" /\ env["TRIAGE_PROVIDER"] = "vercel-gateway" -> "low"
    [] OTHER -> "medium"

(* The traces are fetched first; one that fails is counted, never fatal.   *)
Triage ==
  /\ stage = "triage"
  /\ \/ /\ ~TriageEnabled
        /\ stage' = "llm" /\ UNCHANGED degraded
     \/ /\ TriageEnabled
        /\ \E answer \in TriageAnswers :
             IF Classified(answer) = "low"
             THEN stage' = "post" /\ degraded' = "triage_low_severity"
             ELSE stage' = "llm" /\ UNCHANGED degraded
  /\ UNCHANGED <<bootVars, llmVars, clusterVars, left, ended, claims, routed, analysis, llmError,
                 noticeVars, resultVars>>

CallLlm ==
  /\ stage = "llm"
  /\ StartAnalyze
  /\ stage' = "analyzing"
  /\ UNCHANGED <<bootVars, clusterVars, left, ended, claims, routed, findingVars, noticeVars, resultVars>>

LlmWorks ==
  /\ stage = "analyzing"
  /\ OpenRouterStep \/ CallStep
  /\ UNCHANGED <<bootVars, stagesVars>>

BreakerResets ==
  /\ BreakerHalfOpens
  /\ UNCHANGED <<bootVars, stagesVars>>

LlmReturns ==
  /\ stage = "analyzing"
  /\ TakeReply
  /\ analysis' = reply.analysis
  /\ llmError' = (reply.kind = "error")
  /\ degraded' = IF reply.kind = "error" THEN "none" ELSE reply.reason
  /\ stage' = "post"
  /\ UNCHANGED <<bootVars, clusterVars, left, ended, claims, routed, noticeVars, resultVars>>

-----------------------------------------------------------------------------
(* Notification.                                                           *)

(* The first route wins; escalations of both phases follow, in order.      *)
PrimaryChannel == Head(Channels(routed, "route") \o <<"">>)

(* Mutant: the escalations of the pre-LLM rules are forgotten.             *)
RecipientsPostOnly(later) == <<PrimaryChannel>> \o Channels(later, "escalate")

Recipients(later) ==
  <<PrimaryChannel>> \o Channels(routed, "escalate") \o Channels(later, "escalate")

(* Without an analysis the post-LLM rules are not looked at.               *)
EvaluatePostLlm ==
  /\ stage = "post"
  /\ targets' = Recipients(IF analysis.given
                           THEN Evaluate(Rules("post"), cluster, analysis)
                           ELSE PassThrough)
  /\ stage' = "notify"
  /\ UNCHANGED <<bootVars, llmVars, clusterVars, left, ended, claims, routed, findingVars, sent, resultVars>>

(* resolveOrDefault: a channel without a notifier means the default one.   *)
Resolve(ch) == IF ch \in DOMAIN registry THEN ch ELSE ""

Backend(ch) == IF ch = "" THEN NotifierType ELSE registry[ch].type

(* What a request to a backend may end with.  Slack says 200 and ok: false *)
(* to what it rejects; a timeout may come after the message was posted.    *)
Replies(type) ==
  {"posted", "http_error", "network_error", "timeout"}
    \union (IF type = "slack" THEN {"ok_false"} ELSE {})

(* Mutant: the status of Slack's answer is enough.                         *)
AcceptedByStatus(r) == r \in {"posted", "ok_false"}

(* send() of both adapters returns, or throws.                             *)
AcceptedReply(r) == r = "posted"

(* The Slack message offers the rollback the analysis asks for; the Teams  *)
(* card has no button for it; without an analysis both say so.             *)
Message(ch, r) ==
  [for |-> ch, to |-> Resolve(ch), posted |-> r = "posted",
   diagnosed |-> analysis.given,
   rollback |-> analysis.rollback /\ Backend(Resolve(ch)) = "slack"]

Send ==
  /\ stage = "notify" /\ targets # <<>>
  /\ \E r \in Replies(Backend(Resolve(Head(targets)))) :
       /\ AcceptedReply(r)
       /\ sent' = Append(sent, Message(Head(targets), r))
  /\ targets' = Tail(targets)
  /\ UNCHANGED <<bootVars, llmVars, stage, clusterVars, left, ended, claims, routed, findingVars, resultVars>>

SendFails ==
  /\ stage = "notify" /\ targets # <<>>
  /\ \E r \in Replies(Backend(Resolve(Head(targets)))) : ~AcceptedReply(r)
  /\ stage' = "release"
  /\ UNCHANGED <<bootVars, llmVars, clusterVars, left, ended, claims, routed, findingVars, noticeVars, resultVars>>

(* Mutant: the claim is left as it is.                                     *)
KeepClaim ==
  /\ stage = "release"
  /\ UNCHANGED claims
  /\ Emit("error", TRUE)
  /\ UNCHANGED <<bootVars, llmVars, clusterVars, routed, findingVars, noticeVars>>

(* releaseDedupClaim swallows its own failure; execute() then throws.      *)
ReleaseClaim ==
  /\ stage = "release"
  /\ \/ SetClaim("free")
     \/ MayFail /\ MarkClaim("stuck")
  /\ Emit("error", TRUE)
  /\ UNCHANGED <<bootVars, llmVars, clusterVars, routed, findingVars, noticeVars>>

(* resolveOutcome after every notification went out.                       *)
DeliveredOutcome == IF llmError \/ degraded # "none" THEN "degraded" ELSE "success"

Finish ==
  /\ stage = "notify" /\ targets = <<>>
  /\ Emit(DeliveredOutcome, llmError)
  /\ MarkClaim("notified")
  /\ UNCHANGED <<bootVars, llmVars, clusterVars, routed, findingVars, noticeVars>>

-----------------------------------------------------------------------------
Boot == BootStep /\ UNCHANGED <<llmVars, stagesVars>>

StagesNext ==
  \/ Boot
  \/ TakeMessage \/ Consider \/ IsNew \/ IsDuplicate \/ ClaimExpires
  \/ EvaluatePreLlm \/ Triage
  \/ CallLlm \/ LlmWorks \/ BreakerResets \/ LlmReturns
  \/ EvaluatePostLlm \/ Send \/ SendFails \/ ReleaseClaim \/ Finish

StagesSpec == StagesInit /\ [][StagesNext]_vars

-----------------------------------------------------------------------------
(* Properties.                                                             *)

(* Type invariant: every variable of execute(), with the claims and the    *)
(* messages in the shapes the adapters give them.                          *)
StagesTypeOK ==
  /\ stage \in {"idle", "dedup", "rules", "triage", "llm", "analyzing", "post", "notify", "release"}
  /\ taken \in 0..MaxClusters
  /\ stage # "idle" => cluster.fingerprint \in DOMAIN claims
  /\ claims \in [DOMAIN claims -> ClaimStates]
  /\ analysis \in Analyses \union {NoAnalysis} /\ llmError \in BOOLEAN
  /\ llm # "idle" => stage = "analyzing"
  /\ \A i \in DOMAIN sent : sent[i].to \in DOMAIN registry \union {""}
  /\ outcome \in {"none", "duplicate", "suppressed", "success", "degraded", "error"}
  /\ event \subseteq SafeFields

(* The outcome a cluster ends with is what its readers saw: a success or a *)
(* degraded one means that every message was really posted, a success that *)
(* all of them carry a diagnosis, a degraded one that none does and none   *)
(* offers a rollback, however triage, the LLM and the backends failed      *)
(* (resolveOutcome and the two adapters).                                  *)
OutcomeIsTruth ==
  outcome \in {"success", "degraded"} =>
    /\ sent # <<>>
    /\ \A i \in DOMAIN sent :
         /\ sent[i].posted
         /\ sent[i].diagnosed <=> outcome = "success"
         /\ sent[i].rollback => outcome = "success"

(* createNotifier fails at startup "rather than have the alert silently    *)
(* fall back to the default channel mid-incident".  A message meant for a  *)
(* channel reaches the default one only if the rules file was changed      *)
(* between the three times a boot reads it.                                *)
NoSilentReroute ==
  \A i \in DOMAIN sent : sent[i].for # sent[i].to => edited

(* What a pre-LLM rule escalates arrives even when triage skips the LLM or *)
(* the LLM fails, unless the cluster is retried.                           *)
EscalationsSurvive ==
  outcome \in {"success", "degraded"} =>
    \A i \in DOMAIN Channels(routed, "escalate") :
      \E j \in DOMAIN sent : sent[j].for = Channels(routed, "escalate")[i]

(* "Errors and slow events are never lost" (sampling.ts): with wide events *)
(* on, a cluster that failed or went out undiagnosed leaves an event that  *)
(* still tells the outcome and the cluster after sampling and redaction.   *)
FailuresLeaveATrace ==
  WideEvents /\ outcome \in {"error", "degraded"} =>
    /\ {"outcome", "cluster", "dedup", "notify"} \subseteq event
    /\ outcome = "error" \/ llmError => "error" \in event

(* A cluster is discarded as a duplicate only when the claim's holder was  *)
(* delivered, was suppressed by a rule, or could not be released: a batch  *)
(* that failed never shadows its own retry.  The suppressed case is a loss *)
(* when the two clusters differ in what the rule looked at.                *)
DuplicateExplained ==
  outcome = "duplicate" => degraded \in {"suppressed", "notified", "stuck"}

(* "300 alerts with the same root cause -> 1 cluster with 2 representative *)
(* traces" (clustering.service.ts): when execute() returns, whatever became*)
(* of the clusters before, each alert of the message was counted in exactly*)
(* one cluster that was dealt with, and of the alerts with a trace in that *)
(* cluster a slowest one is a sample.                                      *)
EveryAlertCounted ==
  stage = "idle" /\ left = <<>> /\ outcome # "error" =>
    \A i \in DOMAIN alerts :
      LET Mine(x) == x.fingerprint = Fingerprint(alerts[i])
          mine == {j \in DOMAIN alerts : Fingerprint(alerts[j]) = Fingerprint(alerts[i])}
          traced == {alerts[j] : j \in {k \in mine : alerts[k].traceId # ""}}
      IN  \E e \in DOMAIN ended :
            /\ \A f \in DOMAIN ended : Mine(ended[f]) <=> f = e
            /\ ended[e].alertCount = Cardinality(mine)
            /\ ended[e].representativeTraceIds \subseteq {a.traceId : a \in traced}
            /\ traced # {} =>
                 \E a \in traced : /\ a.traceId \in ended[e].representativeTraceIds
                                   /\ \A b \in traced : b.latencyMs <= a.latencyMs
=============================================================================
