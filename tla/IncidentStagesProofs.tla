------------------------- MODULE IncidentStagesProofs -------------------------
(***************************************************************************)
(* The safety of the use case on a booted worker, for every message, rules *)
(* file, environment, provider and text: what the boot established, where  *)
(* a cluster is, whose claims are held, what was found out about it, what  *)
(* was sent, and what its readers were told.                               *)
(***************************************************************************)
EXTENDS IncidentStages, LlmProvidersProofs, AlertSourcesProofs

-----------------------------------------------------------------------------
(* The inductive invariant.                                                *)

(* What each stage of a boot found to be so still is: nothing but a page of*)
(* SSM changes the environment, and the file changes at most once.         *)
BootFacts ==
  /\ file \in RuleFiles
  /\ boot \in {"cold", "factories", "channels", "references", "engine", "ready", "failed"}
  /\ failure # "none" <=> boot = "failed"
  /\ boot \notin {"cold", "failed"} => Refined
  /\ failure = "model" => env["LLM_PROVIDER"] = "vercel-gateway" /\ ~Given("LLM_MODEL")
  /\ failure = "rules" => RulesEnabled
  /\ boot = "references" => RulesEnabled /\ (edited \/ registry = file.channels)
  /\ boot \in {"engine", "ready"} /\ RulesEnabled =>
       edited \/ Referenced(file) \subseteq DOMAIN registry
  /\ engine = <<>> \/ (boot = "ready" /\ RulesEnabled /\ engine = <<file>>)

(* The channels the engine's rules name.                                   *)
RuledChannels == IF engine = <<>> THEN {} ELSE Referenced(engine[1])

(* execute() is not called before the worker has booted.                   *)
NothingBeforeBoot ==
  boot # "ready" =>
    /\ stage = "idle" /\ left = <<>> /\ outcome = "none"
    /\ routed = PassThrough /\ targets = <<>> /\ sent = <<>>

(* The loop has the clusters of the message behind it, in hand and ahead,  *)
(* until one of them fails.                                                *)
LoopPosition ==
  LET all  == BuildClusters(alerts)
      here == Len(ended) + (IF stage = "idle" THEN 0 ELSE 1)
  IN  /\ IsAlerts(alerts) /\ IsSequence(left) /\ IsSequence(ended)
      /\ \A k \in DOMAIN left : left[k].fingerprint \in DOMAIN claims
      /\ stage # "idle" \/ left # <<>> \/ outcome # "error" =>
           /\ Len(all) = here + Len(left)
           /\ \A k \in DOMAIN ended : ended[k] = all[k]
           /\ stage # "idle" => cluster = all[here]
           /\ \A k \in DOMAIN left : left[k] = all[here + k]

(* A claim is held by the cluster in hand, or tells what became of its     *)
(* holder.                                                                 *)
ClaimsExplained ==
  /\ claims \in [Fingerprints -> ClaimStates]
  /\ stage # "idle" => cluster.fingerprint \in DOMAIN claims
  /\ \A f \in DOMAIN claims :
       claims[f] = "running" => stage \notin {"idle", "dedup"} /\ f = cluster.fingerprint

(* Nothing is known before the model was asked; afterwards there is an     *)
(* analysis exactly when nothing went wrong and triage did not skip it.    *)
FindingFacts ==
  /\ analysis \in Analyses \union {NoAnalysis} /\ llmError \in BOOLEAN
  /\ llm # "idle" => stage = "analyzing"
  /\ stage \in {"dedup", "rules", "triage", "llm", "analyzing"} =>
       analysis = NoAnalysis /\ ~llmError /\ degraded = "none"
  /\ stage \in {"post", "notify", "release"} => (analysis.given <=> ~llmError /\ degraded = "none")

(* What was sent is posted, tells of the analysis and went where it was    *)
(* meant to go; what is still to be sent has a notifier.                   *)
NoticeFacts ==
  /\ NamesOnly(routed, RuledChannels)
  /\ IsSequence(targets) /\ IsSequence(sent)
  /\ stage \notin {"idle", "notify", "release"} => targets = <<>> /\ sent = <<>>
  /\ \A i \in DOMAIN targets : edited \/ targets[i] \in DOMAIN registry \union {""}
  /\ \A i \in DOMAIN sent :
       /\ sent[i].posted
       /\ sent[i].diagnosed <=> analysis.given
       /\ sent[i].rollback => analysis.given
       /\ sent[i].to \in DOMAIN registry \union {""}
  /\ NoSilentReroute
  /\ stage = "notify" =>
       /\ sent # <<>> \/ targets # <<>>
       /\ \A i \in DOMAIN Channels(routed, "escalate") :
            \/ \E j \in DOMAIN sent : sent[j].for = Channels(routed, "escalate")[i]
            \/ \E j \in DOMAIN targets : targets[j] = Channels(routed, "escalate")[i]

(* The outcome stands for the cluster that ended last.                     *)
OutcomeFacts ==
  /\ stage # "idle" => outcome = "none"
  /\ outcome \in {"success", "degraded"} => sent # <<>> /\ (analysis.given <=> outcome = "success")
  /\ EscalationsSurvive /\ FailuresLeaveATrace /\ DuplicateExplained

(* The types that the facts above do not imply.                            *)
StageTypes ==
  /\ stage \in {"idle", "dedup", "rules", "triage", "llm", "analyzing", "post", "notify", "release"}
  /\ taken \in 0..MaxClusters
  /\ outcome \in {"none", "duplicate", "suppressed", "success", "degraded", "error"}
  /\ event \subseteq SafeFields

StagesInv ==
  /\ LlmInv /\ ReplyFacts
  /\ BootFacts /\ NothingBeforeBoot
  /\ StageTypes /\ LoopPosition /\ ClaimsExplained /\ FindingFacts /\ NoticeFacts /\ OutcomeFacts

-----------------------------------------------------------------------------
(* The boot.                                                               *)

LEMMA ReadyStands ==
  ASSUME boot = "ready" PROVE ~BootStep
BY DEF BootStep, LoadPage, PageFails, ParseConfig, BuildProviders, BuildChannels,
       CheckReferences, BuildEngine, BootAgain, EditRules

(* What the environment says stays so while it stays.                      *)
LEMMA SameEnvironment ==
  ASSUME UNCHANGED env
  PROVE  /\ Refined' = Refined /\ BaseValid' = BaseValid
         /\ RulesEnabled' = RulesEnabled /\ ModelGiven' = ModelGiven
         /\ WideEvents' = WideEvents /\ \A v : Given(v)' = Given(v)
BY DEF Refined, BaseValid, RulesEnabled, ModelGiven, WideEvents, Given, Unset, Setting,
       NotifierType, DedupStore, TriageEnabled

LEMMA BootFactsStep ==
  ASSUME BootFacts, BootStep
  PROVE  BootFacts'
<1>1. CASE LoadPage \/ PageFails
  BY <1>1 DEF LoadPage, PageFails, BootFacts
<1>2. ASSUME UNCHANGED env
      PROVE  BootFacts'
  <2> USE SameEnvironment, <1>2
  <2>1. CASE ParseConfig
    BY <2>1 DEF ParseConfig, FailBoot, BootFacts
  <2>2. CASE BuildProviders
    BY <2>2 DEF BuildProviders, FailBoot, BootFacts, ModelGiven
  <2>3. CASE BuildChannels
    BY <2>3 DEF BuildChannels, FailBoot, BootFacts
  <2>4. CASE CheckReferences
    BY <2>4 DEF CheckReferences, FailBoot, BootFacts
  <2>5. CASE BuildEngine
    BY <2>5 DEF BuildEngine, FailBoot, BootFacts
  <2>6. CASE BootAgain
    BY <2>6 DEF BootAgain, BootFacts
  <2>7. CASE EditRules
    BY <2>7 DEF EditRules, BootFacts
  <2> QED
    BY <1>1, <2>1, <2>2, <2>3, <2>4, <2>5, <2>6, <2>7 DEF BootStep
<1> QED
  BY <1>1, <1>2
  DEF BootStep, ParseConfig, BuildProviders, BuildChannels, CheckReferences, BuildEngine,
      BootAgain, EditRules

LEMMA SameBoot ==
  ASSUME BootFacts, UNCHANGED bootVars
  PROVE  BootFacts'
BY SameEnvironment DEF BootFacts, bootVars

-----------------------------------------------------------------------------
(* The loop over the clusters of a message.                                *)

LEMMA MessagesTyped ==
  ASSUME NEW m \in Messages
  PROVE  /\ IsAlerts(AlertsOf(m))
         /\ \A i \in DOMAIN AlertsOf(m) : Fingerprint(AlertsOf(m)[i]) \in Fingerprints
<1>1. IsMessage(m)
  BY StagesAssumption DEF StagesAssumption, IsMessage
<1> QED  BY <1>1, MessageAlerts DEF Fingerprints

(* A step that leaves the loop where it is.                                *)
LEMMA LoopStays ==
  ASSUME LoopPosition, UNCHANGED <<alerts, left, ended, cluster, outcome>>,
         stage = "idle" <=> stage' = "idle", DOMAIN claims' = DOMAIN claims
  PROVE  LoopPosition'
BY DEF LoopPosition

(* The cluster in hand is done with; if it failed, so is the message.      *)
LEMMA LoopTurns ==
  ASSUME LoopPosition, stage # "idle", stage' = "idle", UNCHANGED alerts,
         ended' = Append(ended, cluster), DOMAIN claims' = DOMAIN claims,
         left' = IF outcome' = "error" THEN <<>> ELSE left
  PROVE  LoopPosition'
<1> DEFINE all == BuildClusters(alerts)
           n == Len(ended)
<1>1. IsSequence(<<>>) /\ DOMAIN <<>> = {}
  BY DEF IsSequence
<1>2. IsSequence(ended) /\ n \in Nat /\ DOMAIN ended = 1..n
  BY SequenceLength DEF LoopPosition
<1>3. /\ IsSequence(ended') /\ Len(ended') = n + 1 /\ ended'[n + 1] = cluster
      /\ \A i \in DOMAIN ended : ended'[i] = ended[i]
      /\ \A i \in DOMAIN ended' : i \in DOMAIN ended \/ i = n + 1
  BY <1>2, AppendSequence
<1>4. /\ Len(all) = n + 1 + Len(left)
      /\ \A k \in DOMAIN ended : ended[k] = all[k]
      /\ cluster = all[n + 1]
      /\ \A k \in DOMAIN left : left[k] = all[n + 1 + k]
  BY DEF LoopPosition
<1>5. \A k \in DOMAIN ended' : ended'[k] = all[k]
  BY <1>3, <1>4
<1>6. all' = all
  OBVIOUS
<1> HIDE DEF all
<1>7. IsAlerts(alerts') /\ IsSequence(left') /\ \A k \in DOMAIN left' : left'[k].fingerprint \in DOMAIN claims'
  BY <1>1 DEF LoopPosition
<1>8. CASE outcome' = "error"
  BY <1>3, <1>7, <1>8 DEF LoopPosition
<1>9. CASE outcome' # "error"
  <2>1. left' = left
    BY <1>9
  <2>2. Len(all) = (Len(ended') + 0) + Len(left') /\ \A k \in DOMAIN left' : left'[k] = all[Len(ended') + 0 + k]
    <3>1. Len(ended') + 0 = n + 1
      BY <1>2, <1>3
    <3>2. ASSUME NEW k \in DOMAIN left PROVE Len(ended') + 0 + k = n + 1 + k
      BY <3>1
    <3> QED  BY <1>4, <2>1, <3>1, <3>2
  <2> QED  BY <1>3, <1>5, <1>6, <1>7, <2>2 DEF LoopPosition, all
<1> QED  BY <1>8, <1>9

LEMMA LoopStep ==
  ASSUME LoopPosition, ClaimsExplained, StagesNext
  PROVE  LoopPosition'
<1>1. CASE TakeMessage
  <2>1. PICK m \in Messages : alerts' = AlertsOf(m) /\ left' = BuildClusters(AlertsOf(m))
    BY <1>1 DEF TakeMessage
  <2>2. IsAlerts(alerts') /\ \A i \in DOMAIN alerts' : Fingerprint(alerts'[i]) \in Fingerprints
    BY <2>1, MessagesTyped
  <2>3. /\ IsSequence(left')
        /\ \A k \in DOMAIN left' : \E i \in DOMAIN alerts' : left'[k].fingerprint = Fingerprint(alerts'[i])
    BY <2>1, <2>2, ClustersPartition
  <2>4. stage' = "idle" /\ ended' = <<>> /\ DOMAIN claims' = Fingerprints
    BY <1>1 DEF TakeMessage, ClaimsExplained
  <2>5. \A k \in DOMAIN left' : left'[k].fingerprint \in DOMAIN claims'
    BY <2>2, <2>3, <2>4
  <2>6. IsSequence(<<>>) /\ DOMAIN <<>> = {} /\ Len(<<>>) = 0
    BY DEF IsSequence
  <2>7. Len(left') \in Nat /\ DOMAIN left' = 1..Len(left')
    BY <2>3, SequenceLength
  <2>8. left' = BuildClusters(alerts')
    BY <2>1
  <2>9. Len(left') = 0 + 0 + Len(left') /\ \A k \in DOMAIN left' : 0 + 0 + k = k
    BY <2>7
  <2> QED  BY <2>2, <2>3, <2>4, <2>5, <2>6, <2>8, <2>9 DEF LoopPosition
<1>2. CASE Consider
  <2> DEFINE all == BuildClusters(alerts)
             n == Len(ended)
  <2>1. /\ stage = "idle" /\ left # <<>> /\ stage' = "dedup" /\ cluster' = left[1] /\ left' = Tail(left)
        /\ IsSequence(left') /\ Len(left') = Len(left) - 1
        /\ \A k \in DOMAIN left' : left'[k] = left[k + 1]
        /\ UNCHANGED <<alerts, claims, ended>>
    BY <1>2, TailSequence DEF Consider, LoopPosition
  <2>2. n \in Nat /\ Len(left) \in Nat \ {0} /\ DOMAIN left = 1..Len(left) /\ DOMAIN left' = 1..(Len(left) - 1)
    BY <2>1, SequenceLength DEF LoopPosition
  <2>3. /\ Len(all) = n + 0 + Len(left)
        /\ \A k \in DOMAIN ended : ended[k] = all[k]
        /\ \A k \in DOMAIN left : left[k] = all[n + 0 + k]
    BY <2>1 DEF LoopPosition
  <2> HIDE DEF all
  <2>4. Len(all) = (n + 1) + Len(left') /\ cluster' = all[n + 1]
    BY <2>1, <2>2, <2>3
  <2>5. ASSUME NEW k \in DOMAIN left'
        PROVE  left'[k] = all[n + 1 + k] /\ left'[k].fingerprint \in DOMAIN claims
    <3>1. k + 1 \in DOMAIN left /\ n + 0 + (k + 1) = n + 1 + k
      BY <2>2
    <3> QED  BY <2>1, <2>3, <3>1 DEF LoopPosition
  <2> QED  BY <2>1, <2>3, <2>4, <2>5 DEF LoopPosition, all
<1>3. CASE IsDuplicate
  <2>1. stage # "idle" /\ stage' = "idle" /\ ended' = Append(ended, cluster) /\ outcome' # "error"
        /\ UNCHANGED <<alerts, left, claims>>
    BY <1>3 DEF IsDuplicate, clusterVars
  <2> QED  BY <2>1, LoopTurns
<1>4. DOMAIN claims' = DOMAIN claims \/ TakeMessage
  BY DEF ClaimsExplained, StagesNext, Boot, stagesVars, Consider, IsNew, IsDuplicate, ClaimExpires, EvaluatePreLlm,
         Triage, CallLlm, LlmWorks, BreakerResets, LlmReturns, EvaluatePostLlm, Send, SendFails,
         ReleaseClaim, Finish, Emit, SetClaim, MarkClaim
<1>5. CASE EvaluatePreLlm
  <2>1. CASE routed'.suppressed
    <3>1. Emit("suppressed", FALSE) /\ stage = "rules" /\ UNCHANGED alerts
      BY <1>5, <2>1 DEF EvaluatePreLlm, clusterVars
    <3> QED  BY <1>4, <1>5, <3>1, LoopTurns DEF Emit, EvaluatePreLlm, TakeMessage
  <2>2. CASE ~routed'.suppressed
    <3>1. stage = "rules" /\ stage' = "triage" /\ UNCHANGED <<alerts, cluster, left, ended, claims, outcome>>
      BY <1>5, <2>2 DEF EvaluatePreLlm, clusterVars, resultVars
    <3> QED  BY <3>1, LoopStays
  <2> QED  BY <2>1, <2>2
<1>6. CASE ReleaseClaim \/ Finish
  <2>1. PICK o \in {"error", "degraded", "success"}, e \in {TRUE, llmError} : Emit(o, e)
    BY <1>6 DEF ReleaseClaim, Finish, DeliveredOutcome
  <2>2. stage \in {"release", "notify"} /\ UNCHANGED alerts /\ ~TakeMessage
    BY <1>6 DEF ReleaseClaim, Finish, clusterVars, TakeMessage
  <2> QED  BY <1>4, <2>1, <2>2, LoopTurns DEF Emit
<1>7. CASE \/ Boot \/ IsNew \/ ClaimExpires \/ Triage \/ CallLlm \/ LlmWorks \/ BreakerResets
           \/ LlmReturns \/ EvaluatePostLlm \/ Send \/ SendFails
  <2>1. /\ UNCHANGED <<alerts, left, ended, cluster, outcome>>
        /\ stage = "idle" <=> stage' = "idle"
        /\ ~TakeMessage \/ UNCHANGED claims
    BY <1>7
    DEF Boot, IsNew, ClaimExpires, Triage, CallLlm, LlmWorks, BreakerResets, LlmReturns,
        EvaluatePostLlm, Send, SendFails, stagesVars, clusterVars, resultVars, TakeMessage
  <2> QED  BY <1>4, <2>1, LoopStays
<1> QED
  BY <1>1, <1>2, <1>3, <1>5, <1>6, <1>7 DEF StagesNext

-----------------------------------------------------------------------------
(* The call to the LLM.                                                    *)

LEMMA StagesInitLlm == StagesInit => LlmInit
BY DEF StagesInit

(* Seen from the provider, the worker is a caller that reads each reply    *)
(* before it asks again.                                                   *)
LEMMA StagesStepLlm == [StagesNext]_vars => [LlmNext]_llmVars
<1> SUFFICES ASSUME [StagesNext]_vars PROVE [LlmNext]_llmVars
  OBVIOUS
<1>1. CASE CallLlm
  BY <1>1 DEF CallLlm, LlmNext
<1>2. CASE LlmWorks
  BY <1>2 DEF LlmWorks, LlmNext
<1>3. CASE BreakerResets
  BY <1>3 DEF BreakerResets, LlmNext
<1>4. CASE LlmReturns
  BY <1>4 DEF LlmReturns, LlmNext
<1>5. CASE UNCHANGED llmVars
  BY <1>5
<1> QED
  BY <1>1, <1>2, <1>3, <1>4, <1>5
  DEF StagesNext, vars, Boot, TakeMessage, Consider, IsNew, IsDuplicate, ClaimExpires,
      EvaluatePreLlm, Triage, EvaluatePostLlm, Send, SendFails, ReleaseClaim, Finish

(* The worker implements the provider: what every caller of analyze() may  *)
(* rely on holds in it.                                                    *)
THEOREM WorkerCallsProvider == StagesSpec => LlmSpec
BY StagesInitLlm, StagesStepLlm, PTL DEF StagesSpec, LlmSpec

LEMMA FindingStep ==
  ASSUME FindingFacts, LlmInv, ReplyFacts, [StagesNext]_vars
  PROVE  FindingFacts'
<1>1. \A a \in Analyses : a.given
  BY LlmAssumption DEF LlmAssumption
<1>2. ~NoAnalysis.given
  BY DEF NoAnalysis
<1>3. CASE Boot \/ TakeMessage \/ IsNew \/ ClaimExpires \/ BreakerResets \/ Send \/ SendFails
  BY <1>3
  DEF Boot, TakeMessage, IsNew, ClaimExpires, BreakerResets, Send, SendFails, BreakerHalfOpens,
      FindingFacts, findingVars, llmVars, stagesVars
<1>4. CASE Consider
  BY <1>4 DEF Consider, FindingFacts, llmVars
<1>5. CASE IsDuplicate
  BY <1>5 DEF IsDuplicate, FindingFacts, llmVars
<1>6. CASE EvaluatePreLlm
  BY <1>6 DEF EvaluatePreLlm, Emit, FindingFacts, findingVars, llmVars
<1>7. CASE Triage
  BY <1>2, <1>7 DEF Triage, FindingFacts, llmVars
<1>8. CASE CallLlm
  BY <1>8 DEF CallLlm, FindingFacts, findingVars
<1>9. CASE LlmWorks
  BY <1>9 DEF LlmWorks, FindingFacts, findingVars, stagesVars
<1>10. CASE LlmReturns
  <2>1. llm = "idle" /\ llm' = "idle" /\ reply.kind \in {"result", "error"}
    BY <1>10 DEF LlmReturns, TakeReply, LlmInv, Quiet, ReplyFacts
  <2> QED
    BY <1>1, <1>2, <1>10, <2>1 DEF LlmReturns, ReplyFacts, FindingFacts
<1>11. CASE EvaluatePostLlm
  BY <1>11 DEF EvaluatePostLlm, FindingFacts, findingVars, llmVars
<1>12. CASE ReleaseClaim \/ Finish
  BY <1>12 DEF ReleaseClaim, Finish, Emit, FindingFacts, findingVars, llmVars
<1>13. CASE UNCHANGED vars
  BY <1>13 DEF vars, stagesVars, findingVars, llmVars, FindingFacts
<1> QED
  BY <1>3, <1>4, <1>5, <1>6, <1>7, <1>8, <1>9, <1>10, <1>11, <1>12, <1>13 DEF StagesNext

-----------------------------------------------------------------------------
(* The claims.                                                             *)

LEMMA ClaimsStep ==
  ASSUME ClaimsExplained, LoopPosition, [StagesNext]_vars
  PROVE  ClaimsExplained'
<1> USE DEF ClaimStates
<1>1. CASE \/ Boot \/ TakeMessage \/ Triage \/ CallLlm \/ LlmWorks \/ BreakerResets \/ LlmReturns
           \/ EvaluatePostLlm \/ Send \/ SendFails
  BY <1>1
  DEF Boot, TakeMessage, Triage, CallLlm, LlmWorks, BreakerResets, LlmReturns, EvaluatePostLlm,
      Send, SendFails, ClaimsExplained, clusterVars, stagesVars
<1>2. CASE Consider
  <2>1. IsSequence(left) /\ left # <<>> /\ cluster' = left[1] /\ stage' = "dedup" /\ stage = "idle"
        /\ UNCHANGED claims
    BY <1>2 DEF Consider, LoopPosition
  <2>2. 1 \in DOMAIN left
    BY <2>1, TailSequence
  <2> QED  BY <2>1, <2>2 DEF ClaimsExplained, LoopPosition
<1>3. CASE IsNew
  BY <1>3 DEF IsNew, Claim, SetClaim, ClaimsExplained, clusterVars
<1>4. CASE IsDuplicate
  BY <1>4 DEF IsDuplicate, ClaimsExplained, clusterVars
<1>5. CASE ClaimExpires
  BY <1>5 DEF ClaimExpires, ClaimsExplained, clusterVars
<1>6. CASE EvaluatePreLlm
  BY <1>6 DEF EvaluatePreLlm, Emit, MarkClaim, Claim, SetClaim, ClaimsExplained, clusterVars
<1>7. CASE ReleaseClaim
  BY <1>7 DEF ReleaseClaim, Emit, MarkClaim, Claim, SetClaim, ClaimsExplained, clusterVars
<1>8. CASE Finish
  BY <1>8 DEF Finish, Emit, MarkClaim, Claim, SetClaim, ClaimsExplained, clusterVars
<1>9. CASE UNCHANGED vars
  BY <1>9 DEF vars, stagesVars, clusterVars, ClaimsExplained
<1> QED
  BY <1>1, <1>2, <1>3, <1>4, <1>5, <1>6, <1>7, <1>8, <1>9 DEF StagesNext

-----------------------------------------------------------------------------
(* The notifications.                                                      *)

LEMMA EmptySequence == IsSequence(<<>>) /\ DOMAIN <<>> = {}
BY DEF IsSequence

LEMMA NothingNamed == \A C : NamesOnly(PassThrough, C)
BY EmptySequence DEF NamesOnly, PassThrough

(* The rules of a section are those of a file, and name its channels.      *)
LEMMA RulesNamed ==
  ASSUME BootFacts, NEW section \in {"pre", "post"}
  PROVE  /\ IsRules(Rules(section))
         /\ UNION {ChannelsOf(Rules(section)[i]) : i \in DOMAIN Rules(section)} \subseteq RuledChannels
<1>1. CASE engine = <<>>
  <2>1. Rules(section) = <<>>
    BY <1>1 DEF Rules
  <2> QED  BY <2>1, EmptySequence DEF IsRules
<1>2. CASE engine # <<>>
  <2>1. engine = <<file>> /\ file \in RuleFiles
    BY <1>2 DEF BootFacts
  <2>2. Rules(section) = file[section] /\ RuledChannels = Referenced(file)
    BY <1>2, <2>1 DEF Rules, RuledChannels
  <2>3. \A rules \in {file.pre, file.post} :
          IsSequence(rules) /\ \A i \in DOMAIN rules : IsSequence(rules[i].actions)
    BY <2>1, RuleFilesAssumption DEF RuleFilesAssumption
  <2>4. IsRules(file.pre) /\ IsRules(file.post)
    BY <2>3 DEF IsRules
  <2>5. CASE section = "pre"
    BY <2>2, <2>4, <2>5 DEF Referenced
  <2>6. CASE section = "post"
    BY <2>2, <2>4, <2>6 DEF Referenced
  <2> QED  BY <2>5, <2>6
<1> QED  BY <1>1, <1>2

LEMMA EvaluatedNames ==
  ASSUME BootFacts, NEW section \in {"pre", "post"}, NEW c, NEW a
  PROVE  NamesOnly(Evaluate(Rules(section), c, a), RuledChannels)
<1>1. NamesOnly(Evaluate(Rules(section), c, a),
                UNION {ChannelsOf(Rules(section)[i]) : i \in DOMAIN Rules(section)})
  BY RulesNamed, EvaluateNames
<1> QED  BY <1>1, RulesNamed DEF NamesOnly

(* A channel a rule of the engine names has a notifier, unless the file    *)
(* was edited during the boot.                                             *)
LEMMA RuledChannelsRegistered ==
  ASSUME BootFacts
  PROVE  edited \/ RuledChannels \subseteq DOMAIN registry
BY DEF BootFacts, RuledChannels

(* Who is notified: channels the rules name and the default one, and no    *)
(* escalation of the first phase is forgotten.                             *)
LEMMA RecipientsNamed ==
  ASSUME NEW C, NamesOnly(routed, C), NEW later, NamesOnly(later, C)
  PROVE  /\ IsSequence(Recipients(later)) /\ Recipients(later) # <<>>
         /\ \A i \in DOMAIN Recipients(later) : Recipients(later)[i] \in C \union {""}
         /\ \A i \in DOMAIN Channels(routed, "escalate") :
              \E j \in DOMAIN Recipients(later) : Recipients(later)[j] = Channels(routed, "escalate")[i]
<1> DEFINE routes == Channels(routed, "route")
           early == Channels(routed, "escalate")
           late == Channels(later, "escalate")
           D == C \union {""}
<1>1. /\ IsSequence(routes) /\ IsSequence(early) /\ IsSequence(late)
      /\ \A i \in DOMAIN routes : routes[i] \in C
      /\ \A i \in DOMAIN early : early[i] \in C
      /\ \A i \in DOMAIN late : late[i] \in C
  <2>1. routes \in Seq(C) /\ early \in Seq(C) /\ late \in Seq(C)
    BY ChannelsNamed
  <2> HIDE DEF routes, early, late
  <2>2. /\ \A i \in DOMAIN routes : routes[i] \in C
        /\ \A i \in DOMAIN early : early[i] \in C
        /\ \A i \in DOMAIN late : late[i] \in C
    BY <2>1
  <2> QED  BY <2>1, <2>2, SeqIsSequence
<1>2. PrimaryChannel = Head(routes \o <<"">>) /\ Recipients(later) = (<<PrimaryChannel>> \o early) \o late
  BY DEF PrimaryChannel, Recipients
<1> HIDE DEF routes, early, late
<1>3. PrimaryChannel \in D
  BY <1>1, <1>2, HeadOrDefault
<1>4. ArrayOf(early, D) /\ ArrayOf(late, D)
  BY <1>1 DEF ArrayOf
<1> HIDE DEF D
<1>5. /\ ArrayOf(Recipients(later), D) /\ Recipients(later) # <<>>
      /\ \A i \in DOMAIN early : Has(Recipients(later), early[i])
  BY <1>2, <1>3, <1>4, MiddleOfThree
<1> QED  BY <1>5 DEF early, D, ArrayOf, Has

(* A step that sends nothing and finds nothing out.                        *)
LEMMA NoticeStays ==
  ASSUME NoticeFacts, UNCHANGED <<routed, targets, sent, analysis, engine, registry, edited>>,
         stage' = stage \/ stage' \in {"idle", "release"} \/ (targets = <<>> /\ sent = <<>>),
         stage' = stage \/ stage' # "notify"
  PROVE  NoticeFacts'
BY DEF NoticeFacts, RuledChannels, NoSilentReroute

LEMMA NoticeSends ==
  ASSUME NoticeFacts, FindingFacts, Send
  PROVE  NoticeFacts'
<1> DEFINE here == Head(targets)
           early == Channels(routed, "escalate")
<1>1. PICK r \in Replies(Backend(Resolve(here))) : AcceptedReply(r) /\ sent' = Append(sent, Message(here, r))
  BY DEF Send
<1>2. /\ stage = "notify" /\ stage' = "notify" /\ targets # <<>> /\ targets' = Tail(targets)
      /\ UNCHANGED <<routed, analysis, engine, registry, edited>>
  BY DEF Send, bootVars, findingVars
<1> DEFINE m == Message(here, r)
<1>3. /\ m.for = here /\ m.to = Resolve(here) /\ m.posted = TRUE
      /\ m.diagnosed = analysis.given
      /\ m.rollback => analysis.rollback
  BY <1>1 DEF Message, AcceptedReply
<1>4. analysis.rollback => analysis.given
  BY LlmAssumption DEF LlmAssumption, FindingFacts, NoAnalysis
<1>5. /\ IsSequence(targets') /\ here = targets[1] /\ 1 \in DOMAIN targets
      /\ Len(targets) \in Nat /\ DOMAIN targets = 1..Len(targets)
      /\ DOMAIN targets' = 1..(Len(targets) - 1)
      /\ \A i \in DOMAIN targets' : targets'[i] = targets[i + 1]
  <2>1. IsSequence(targets)
    BY DEF NoticeFacts
  <2>2. /\ IsSequence(targets') /\ Len(targets') = Len(targets) - 1 /\ here = targets[1]
        /\ \A i \in DOMAIN targets' : targets'[i] = targets[i + 1]
    BY <1>2, <2>1, TailSequence
  <2> HIDE DEF here
  <2>3. /\ Len(targets) \in Nat /\ Len(targets) # 0 /\ DOMAIN targets = 1..Len(targets)
        /\ DOMAIN targets' = 1..Len(targets')
    BY <1>2, <2>1, <2>2, SequenceLength
  <2> QED  BY <2>2, <2>3
<1>6. here \in DOMAIN registry \union {""} \/ edited
  BY <1>5 DEF NoticeFacts
<1>7. m.to \in DOMAIN registry \union {""} /\ (m.for # m.to => edited)
  BY <1>3, <1>6 DEF Resolve
<1> HIDE DEF m, here, early
<1>8. /\ IsSequence(sent') /\ sent' # <<>> /\ sent'[Len(sent) + 1] = m /\ Len(sent) + 1 \in DOMAIN sent'
      /\ \A i \in DOMAIN sent : i \in DOMAIN sent' /\ sent'[i] = sent[i]
      /\ \A i \in DOMAIN sent' : i \in DOMAIN sent \/ i = Len(sent) + 1
  <2>1. IsSequence(sent) /\ sent' = Append(sent, m)
    BY <1>1 DEF NoticeFacts, m
  <2>2. /\ IsSequence(sent') /\ Len(sent') = Len(sent) + 1 /\ sent'[Len(sent) + 1] = m
        /\ \A i \in DOMAIN sent : i \in DOMAIN sent' /\ sent'[i] = sent[i]
        /\ \A i \in DOMAIN sent' : i \in DOMAIN sent \/ i = Len(sent) + 1
    BY <2>1, AppendSequence
  <2>3. Len(sent) \in Nat /\ DOMAIN sent' = 1..Len(sent') /\ (sent' = <<>> <=> Len(sent') = 0)
    BY <2>1, <2>2, SequenceLength
  <2>4. Len(sent) + 1 \in DOMAIN sent' /\ sent' # <<>>
    BY <2>2, <2>3
  <2> QED  BY <2>2, <2>4
<1>9. ASSUME NEW i \in DOMAIN sent'
      PROVE  /\ sent'[i].posted /\ (sent'[i].diagnosed <=> analysis.given)
             /\ sent'[i].rollback => analysis.given
             /\ sent'[i].to \in DOMAIN registry \union {""}
             /\ sent'[i].for # sent'[i].to => edited
  <2>1. CASE i \in DOMAIN sent
    BY <1>8, <2>1 DEF NoticeFacts, NoSilentReroute
  <2>2. CASE i = Len(sent) + 1
    BY <1>3, <1>4, <1>7, <1>8, <2>2
  <2> QED  BY <1>8, <2>1, <2>2
<1>10. ASSUME NEW i \in DOMAIN targets' PROVE edited \/ targets'[i] \in DOMAIN registry \union {""}
  <2>1. i + 1 \in DOMAIN targets
    BY <1>5
  <2> QED  BY <1>5, <2>1 DEF NoticeFacts
<1>11. ASSUME NEW i \in DOMAIN early
       PROVE  \/ \E j \in DOMAIN sent' : sent'[j].for = early[i]
              \/ \E j \in DOMAIN targets' : targets'[j] = early[i]
  <2>1. CASE \E j \in DOMAIN sent : sent[j].for = early[i]
    BY <1>8, <2>1
  <2>2. CASE \E j \in DOMAIN targets : targets[j] = early[i]
    <3>1. PICK j \in DOMAIN targets : targets[j] = early[i]
      BY <2>2
    <3>2. CASE j = 1
      BY <1>3, <1>5, <1>8, <3>1, <3>2
    <3>3. CASE j # 1
      <4>1. j - 1 \in DOMAIN targets' /\ (j - 1) + 1 = j
        BY <1>5, <3>3
      <4> QED  BY <1>5, <3>1, <4>1
    <3> QED  BY <3>2, <3>3
  <2> QED  BY <1>2, <2>1, <2>2 DEF NoticeFacts, early
<1>12. NamesOnly(routed', RuledChannels')
  BY <1>2 DEF NoticeFacts, RuledChannels
<1>13. NoSilentReroute'
  BY <1>2, <1>9 DEF NoSilentReroute
<1> QED  BY <1>2, <1>5, <1>8, <1>9, <1>10, <1>11, <1>12, <1>13 DEF NoticeFacts, early

LEMMA NoticeStep ==
  ASSUME NoticeFacts, BootFacts, FindingFacts, NothingBeforeBoot, [StagesNext]_vars
  PROVE  NoticeFacts'
<1>1. CASE Boot
  <2>1. boot # "ready"
    BY <1>1, ReadyStands DEF Boot
  <2>2. /\ stage' = "idle" /\ routed' = PassThrough /\ targets' = <<>> /\ sent' = <<>>
    BY <1>1, <2>1 DEF Boot, stagesVars, noticeVars, NothingBeforeBoot
  <2>3. NamesOnly(routed', RuledChannels')
    BY <2>2, NothingNamed
  <2> QED  BY <2>2, <2>3, EmptySequence DEF NoticeFacts, NoSilentReroute
<1>2. CASE Consider
  <2>1. stage' = "dedup" /\ routed' = PassThrough /\ targets' = <<>> /\ sent' = <<>>
    BY <1>2 DEF Consider
  <2>2. NamesOnly(routed', RuledChannels')
    BY <2>1, NothingNamed
  <2> QED  BY <2>1, <2>2, EmptySequence DEF NoticeFacts, NoSilentReroute
<1>3. CASE EvaluatePreLlm
  <2>1. /\ stage = "rules" /\ stage' \in {"idle", "triage"}
        /\ routed' = Evaluate(Rules("pre"), cluster, NoAnalysis)
        /\ UNCHANGED <<targets, sent, analysis, engine, registry, edited>>
    BY <1>3 DEF EvaluatePreLlm, Emit, findingVars, noticeVars, bootVars
  <2>2. NamesOnly(routed', RuledChannels')
    BY <2>1, EvaluatedNames DEF RuledChannels
  <2>3. targets = <<>> /\ sent = <<>>
    BY <2>1 DEF NoticeFacts
  <2> QED  BY <2>1, <2>2, <2>3, EmptySequence DEF NoticeFacts, NoSilentReroute
<1>4. CASE LlmReturns
  <2>1. /\ stage = "analyzing" /\ stage' = "post"
        /\ UNCHANGED <<routed, targets, sent, engine, registry, edited>>
    BY <1>4 DEF LlmReturns, noticeVars, bootVars
  <2>2. targets = <<>> /\ sent = <<>>
    BY <2>1 DEF NoticeFacts
  <2>3. NamesOnly(routed', RuledChannels')
    BY <2>1 DEF NoticeFacts, RuledChannels
  <2> QED  BY <2>1, <2>2, <2>3, EmptySequence DEF NoticeFacts, NoSilentReroute
<1>5. CASE EvaluatePostLlm
  <2> DEFINE later == IF analysis.given THEN Evaluate(Rules("post"), cluster, analysis) ELSE PassThrough
  <2>1. /\ stage = "post" /\ stage' = "notify" /\ targets' = Recipients(later)
        /\ UNCHANGED <<routed, sent, analysis, engine, registry, edited>>
    BY <1>5 DEF EvaluatePostLlm, findingVars, bootVars
  <2>2. NamesOnly(later, RuledChannels)
    BY EvaluatedNames, NothingNamed
  <2>3. NamesOnly(routed, RuledChannels) /\ sent = <<>>
    BY <2>1 DEF NoticeFacts
  <2> HIDE DEF later
  <2>4. /\ IsSequence(targets') /\ targets' # <<>>
        /\ \A i \in DOMAIN targets' : targets'[i] \in RuledChannels \union {""}
        /\ \A i \in DOMAIN Channels(routed, "escalate") :
             \E j \in DOMAIN targets' : targets'[j] = Channels(routed, "escalate")[i]
    BY <2>1, <2>2, <2>3, RecipientsNamed
  <2>5. \A i \in DOMAIN targets' : edited \/ targets'[i] \in DOMAIN registry \union {""}
    BY <2>4, RuledChannelsRegistered
  <2>6. NamesOnly(routed', RuledChannels')
    BY <2>1, <2>3 DEF RuledChannels
  <2> QED  BY <2>1, <2>3, <2>4, <2>5, <2>6, EmptySequence DEF NoticeFacts, NoSilentReroute
<1>6. CASE Send
  BY <1>6, NoticeSends
<1>7. CASE SendFails
  BY <1>7, NoticeStays DEF SendFails, noticeVars, findingVars, bootVars
<1>8. CASE ReleaseClaim \/ Finish
  BY <1>8, NoticeStays DEF ReleaseClaim, Finish, Emit, noticeVars, findingVars, bootVars
<1>9. CASE ClaimExpires \/ BreakerResets \/ LlmWorks \/ UNCHANGED vars
  BY <1>9, NoticeStays
  DEF ClaimExpires, BreakerResets, LlmWorks, vars, stagesVars, noticeVars, findingVars, bootVars
<1>10. CASE TakeMessage \/ IsNew \/ IsDuplicate \/ Triage \/ CallLlm
  <2>1. /\ stage' = stage \/ stage' = "idle" \/ stage \in {"dedup", "triage", "llm"}
        /\ stage' # "notify" \/ stage' = stage
        /\ UNCHANGED <<routed, targets, sent, analysis, engine, registry, edited>>
    BY <1>10 DEF TakeMessage, IsNew, IsDuplicate, Triage, CallLlm, noticeVars, findingVars, bootVars
  <2>2. stage \in {"dedup", "triage", "llm"} => targets = <<>> /\ sent = <<>>
    BY DEF NoticeFacts
  <2> QED  BY <2>1, <2>2, NoticeStays
<1> QED
  BY <1>1, <1>2, <1>3, <1>4, <1>5, <1>6, <1>7, <1>8, <1>9, <1>10 DEF StagesNext

-----------------------------------------------------------------------------
(* The outcome.                                                            *)

LEMMA OutcomeStays ==
  ASSUME OutcomeFacts, UNCHANGED <<env, llmError, routed, analysis, degraded, sent, resultVars>>,
         stage' = stage \/ stage' = "idle" \/ stage # "idle"
  PROVE  OutcomeFacts'
BY SameEnvironment
DEF OutcomeFacts, EscalationsSurvive, FailuresLeaveATrace, DuplicateExplained, resultVars

(* What the event of a cluster that failed or went out undiagnosed holds.  *)
LEMMA EmittedTrace ==
  ASSUME NEW o \in {"success", "degraded", "error", "suppressed"}, NEW error \in BOOLEAN,
         Emit(o, error), UNCHANGED env, o = "error" => error
  PROVE  /\ event' \subseteq SafeFields
         /\ WideEvents' /\ o \in {"error", "degraded"} =>
              /\ {"outcome", "cluster", "dedup", "notify"} \subseteq event'
              /\ error => "error" \in event'
<1>1. PICK slow, lucky, long \in BOOLEAN :
        event' = IF WideEvents /\ ShouldSample(o, error, slow, lucky)
                 THEN Redacted(EventFields(o, error, long)) ELSE {}
  BY DEF Emit
<1>2. WideEvents' = WideEvents
  BY SameEnvironment
<1>3. event' \subseteq SafeFields
  BY <1>1 DEF Redacted
<1>4. ASSUME WideEvents', o \in {"error", "degraded"}
      PROVE  /\ {"outcome", "cluster", "dedup", "notify"} \subseteq event'
             /\ error => "error" \in event'
  <2>1. event' = Redacted(EventFields(o, error, long))
    BY <1>1, <1>2, <1>4 DEF ShouldSample
  <2>2. /\ {"outcome", "cluster", "dedup", "notify"} \subseteq EventFields(o, error, long)
        /\ error => "error" \in EventFields(o, error, long)
    BY <1>4 DEF EventFields
  <2> QED  BY <2>1, <2>2 DEF Redacted, SafeFields
<1> QED  BY <1>3, <1>4

LEMMA OutcomeStep ==
  ASSUME OutcomeFacts, StageTypes, NoticeFacts, FindingFacts, ClaimsExplained, NothingBeforeBoot,
         [StagesNext]_vars
  PROVE  OutcomeFacts' /\ StageTypes'
<1>1. CASE Boot
  <2>1. boot # "ready"
    BY <1>1, ReadyStands DEF Boot
  <2>2. stage' = "idle" /\ outcome' = "none"
    BY <1>1, <2>1 DEF Boot, stagesVars, resultVars, NothingBeforeBoot
  <2>3. UNCHANGED <<taken, event>>
    BY <1>1 DEF Boot, stagesVars, resultVars, clusterVars
  <2> QED
    BY <2>2, <2>3
    DEF OutcomeFacts, EscalationsSurvive, FailuresLeaveATrace, DuplicateExplained, StageTypes
<1>2. CASE TakeMessage
  <2>1. /\ stage' = stage
        /\ UNCHANGED <<env, llmError, routed, analysis, degraded, sent, resultVars>>
    BY <1>2 DEF TakeMessage, bootVars, findingVars, noticeVars
  <2>2. taken' \in 0..MaxClusters
    <3>1. PICK msg \in Messages : alerts' = AlertsOf(msg) /\ left' = BuildClusters(AlertsOf(msg))
      BY <1>2 DEF TakeMessage
    <3>2. IsAlerts(AlertsOf(msg))
      BY MessagesTyped
    <3>3. IsSequence(left')
      BY <3>1, <3>2, ClustersPartition
    <3>4. Len(left') \in Nat /\ MaxClusters \in Nat
      BY <3>3, SequenceLength, StagesAssumption DEF StagesAssumption
    <3>5. taken' = taken + Len(left') /\ taken + Len(left') <= MaxClusters
      BY <1>2 DEF TakeMessage
    <3>6. taken \in Nat
      BY <3>4 DEF StageTypes
    <3> HIDE DEF StageTypes
    <3> QED  BY <3>4, <3>5, <3>6
  <2> QED  BY <2>1, <2>2, OutcomeStays DEF StageTypes, resultVars
<1>3. CASE Consider
  BY <1>3
  DEF Consider, OutcomeFacts, EscalationsSurvive, FailuresLeaveATrace, DuplicateExplained, StageTypes
<1>4. CASE IsDuplicate
  <2>1. /\ outcome' = "duplicate" /\ degraded' = claims[cluster.fingerprint]
        /\ stage = "dedup" /\ stage' = "idle" /\ claims[cluster.fingerprint] # "free"
        /\ UNCHANGED <<taken, event>>
    BY <1>4 DEF IsDuplicate, Claim, clusterVars
  <2>2. claims[cluster.fingerprint] \in {"suppressed", "notified", "stuck"}
    BY <2>1 DEF ClaimsExplained, ClaimStates
  <2> QED
    BY <2>1, <2>2
    DEF OutcomeFacts, EscalationsSurvive, FailuresLeaveATrace, DuplicateExplained, StageTypes
<1>5. CASE EvaluatePreLlm
  <2>1. UNCHANGED <<taken, env, findingVars, sent>> /\ stage = "rules"
    BY <1>5 DEF EvaluatePreLlm, bootVars, clusterVars, noticeVars
  <2>2. CASE routed'.suppressed
    <3>1. Emit("suppressed", FALSE)
      BY <1>5, <2>2 DEF EvaluatePreLlm
    <3>2. stage' = "idle" /\ outcome' = "suppressed" /\ event' \subseteq SafeFields
      BY <2>1, <3>1, EmittedTrace DEF Emit
    <3> QED
      BY <2>1, <3>2
      DEF OutcomeFacts, EscalationsSurvive, FailuresLeaveATrace, DuplicateExplained, StageTypes
  <2>3. CASE ~routed'.suppressed
    <3>1. stage' = "triage" /\ UNCHANGED resultVars
      BY <1>5, <2>3 DEF EvaluatePreLlm
    <3>2. outcome' = "none" /\ event' = event
      BY <2>1, <3>1 DEF OutcomeFacts, resultVars
    <3> QED
      BY <2>1, <3>1, <3>2
      DEF OutcomeFacts, EscalationsSurvive, FailuresLeaveATrace, DuplicateExplained, StageTypes
  <2> QED  BY <2>2, <2>3
<1>6. CASE IsNew \/ Triage \/ CallLlm \/ LlmReturns \/ EvaluatePostLlm \/ Send \/ SendFails
  <2>1. /\ stage # "idle" /\ stage' \in {"rules", "llm", "post", "analyzing", "notify", "release"}
        /\ UNCHANGED <<taken, resultVars>>
    BY <1>6
    DEF IsNew, Triage, CallLlm, LlmReturns, EvaluatePostLlm, Send, SendFails, clusterVars
  <2>2. outcome' = "none" /\ event' = event
    BY <2>1 DEF OutcomeFacts, resultVars
  <2> QED
    BY <2>1, <2>2
    DEF OutcomeFacts, EscalationsSurvive, FailuresLeaveATrace, DuplicateExplained, StageTypes
<1>7. CASE ClaimExpires \/ LlmWorks \/ BreakerResets \/ UNCHANGED vars
  <2>1. /\ stage' = stage
        /\ UNCHANGED <<taken, env, llmError, routed, analysis, degraded, sent, resultVars>>
    BY <1>7
    DEF ClaimExpires, LlmWorks, BreakerResets, vars, stagesVars, bootVars, clusterVars,
        findingVars, noticeVars
  <2> QED  BY <2>1, OutcomeStays DEF StageTypes, resultVars
<1>8. CASE ReleaseClaim
  <2>1. Emit("error", TRUE) /\ UNCHANGED <<env, taken>>
    BY <1>8 DEF ReleaseClaim, bootVars, clusterVars
  <2>2. /\ stage' = "idle" /\ outcome' = "error" /\ event' \subseteq SafeFields
        /\ WideEvents' => {"outcome", "cluster", "dedup", "notify"} \subseteq event' /\ "error" \in event'
    BY <2>1, EmittedTrace DEF Emit
  <2> QED
    BY <2>1, <2>2
    DEF OutcomeFacts, EscalationsSurvive, FailuresLeaveATrace, DuplicateExplained, StageTypes
<1>9. CASE Finish
  <2>1. /\ stage = "notify" /\ targets = <<>> /\ Emit(DeliveredOutcome, llmError)
        /\ UNCHANGED <<env, taken, findingVars, sent, routed>>
    BY <1>9 DEF Finish, bootVars, clusterVars, noticeVars
  <2>2. /\ DeliveredOutcome \in {"success", "degraded"}
        /\ DeliveredOutcome = "success" <=> analysis.given
        /\ llmError \in BOOLEAN
    BY <2>1 DEF DeliveredOutcome, FindingFacts
  <2>3. /\ stage' = "idle" /\ outcome' = DeliveredOutcome /\ event' \subseteq SafeFields
        /\ WideEvents' /\ DeliveredOutcome = "degraded" =>
             /\ {"outcome", "cluster", "dedup", "notify"} \subseteq event'
             /\ llmError => "error" \in event'
    BY <2>1, <2>2, EmittedTrace DEF Emit
  <2>4. sent' # <<>> /\ EscalationsSurvive'
    <3>1. /\ sent # <<>> /\ ~\E j \in DOMAIN targets : TRUE
          /\ UNCHANGED <<sent, routed>>
      BY <2>1, EmptySequence DEF NoticeFacts
    <3>2. ASSUME NEW i \in DOMAIN Channels(routed, "escalate")
          PROVE  \E j \in DOMAIN sent : sent[j].for = Channels(routed, "escalate")[i]
      BY <2>1, <3>1 DEF NoticeFacts
    <3> QED  BY <3>1, <3>2 DEF EscalationsSurvive
  <2>5. FailuresLeaveATrace' /\ DuplicateExplained'
    BY <2>1, <2>2, <2>3 DEF FailuresLeaveATrace, DuplicateExplained, findingVars
  <2> QED
    BY <2>1, <2>2, <2>3, <2>4, <2>5 DEF OutcomeFacts, StageTypes, findingVars
<1> QED
  BY <1>1, <1>2, <1>3, <1>4, <1>5, <1>6, <1>7, <1>8, <1>9 DEF StagesNext

-----------------------------------------------------------------------------
(* The invariant.                                                          *)

LEMMA NothingBeforeBootStep ==
  ASSUME NothingBeforeBoot, BootFacts, [StagesNext]_vars
  PROVE  NothingBeforeBoot'
<1>1. CASE boot = "ready"
  <2>1. boot' = "ready"
    BY <1>1, ReadyStands
    DEF StagesNext, Boot, TakeMessage, Consider, IsNew, IsDuplicate, ClaimExpires, EvaluatePreLlm,
        Triage, CallLlm, LlmWorks, BreakerResets, LlmReturns, EvaluatePostLlm, Send, SendFails,
        ReleaseClaim, Finish, vars, bootVars
  <2> QED  BY <2>1 DEF NothingBeforeBoot
<1>2. CASE boot # "ready"
  <2>1. stage = "idle" /\ left = <<>> /\ boot # "ready"
    BY <1>2 DEF NothingBeforeBoot
  <2>2. UNCHANGED <<stage, left, outcome, routed, targets, sent>>
    BY <2>1
    DEF StagesNext, Boot, TakeMessage, Consider, IsNew, IsDuplicate, ClaimExpires, EvaluatePreLlm,
        Triage, CallLlm, LlmWorks, BreakerResets, LlmReturns, EvaluatePostLlm, Send, SendFails,
        ReleaseClaim, Finish, vars, stagesVars, noticeVars, resultVars
  <2> QED  BY <1>2, <2>2 DEF NothingBeforeBoot
<1> QED  BY <1>1, <1>2

LEMMA BootStays ==
  ASSUME BootFacts, [StagesNext]_vars
  PROVE  BootFacts'
<1>1. BootStep \/ UNCHANGED bootVars
  BY DEF StagesNext, Boot, TakeMessage, Consider, IsNew, IsDuplicate, ClaimExpires, EvaluatePreLlm,
         Triage, CallLlm, LlmWorks, BreakerResets, LlmReturns, EvaluatePostLlm, Send, SendFails,
         ReleaseClaim, Finish, vars
<1> QED  BY <1>1, BootFactsStep, SameBoot

LEMMA StagesInitInv == StagesInit => StagesInv
<1> SUFFICES ASSUME StagesInit PROVE StagesInv
  OBVIOUS
<1>1. LlmInv
  BY StagesInitLlm, LlmInitInv
<1>2. ReplyFacts
  BY StagesInitLlm DEF LlmInit, NoReply, ReplyFacts
<1>3. BootFacts
  BY DEF StagesInit, BootInit, BootFacts
<1>4. NothingBeforeBoot
  BY DEF StagesInit, NothingBeforeBoot
<1>5. StageTypes
  BY StagesAssumption DEF StagesAssumption, StagesInit, StageTypes
<1>6. LoopPosition
  <2>1. IsAlerts(<<>>) /\ IsSequence(<<>>) /\ DOMAIN <<>> = {} /\ Len(<<>>) = 0
    BY EmptySequence DEF IsAlerts
  <2>2. Len(BuildClusters(<<>>)) = 0
    <3> DEFINE all == BuildClusters(<<>>)
    <3>1. IsSequence(all) /\ \A k \in DOMAIN all : \E i \in DOMAIN <<>> : TRUE
      BY <2>1, ClustersPartition
    <3> HIDE DEF all
    <3>2. DOMAIN all = {}
      BY <2>1, <3>1
    <3>3. Len(all) \in Nat /\ 1..Len(all) = {}
      BY <3>1, <3>2, SequenceLength
    <3>4. Len(all) = 0
      BY <3>3
    <3> QED  BY <3>4 DEF all
  <2>3. stage = "idle" /\ outcome = "none" /\ alerts = <<>> /\ left = <<>> /\ ended = <<>>
    BY DEF StagesInit
  <2> QED  BY <2>1, <2>2, <2>3 DEF LoopPosition
<1>7. ClaimsExplained
  BY DEF StagesInit, ClaimsExplained, ClaimStates
<1>8. FindingFacts
  BY DEF StagesInit, LlmInit, FindingFacts
<1>9. NoticeFacts
  BY NothingNamed, EmptySequence DEF StagesInit, NoticeFacts, NoSilentReroute
<1>10. OutcomeFacts
  BY DEF StagesInit, OutcomeFacts, EscalationsSurvive, FailuresLeaveATrace, DuplicateExplained
<1> QED
  BY <1>1, <1>2, <1>3, <1>4, <1>5, <1>6, <1>7, <1>8, <1>9, <1>10 DEF StagesInv

LEMMA StagesStepInv == StagesInv /\ [StagesNext]_vars => StagesInv'
<1> SUFFICES ASSUME StagesInv, [StagesNext]_vars PROVE StagesInv'
  OBVIOUS
<1> USE DEF StagesInv
<1>1. LlmInv' /\ ReplyFacts'
  BY StagesStepLlm, LlmNextInv, ReplyStep
<1>2. BootFacts' /\ NothingBeforeBoot'
  BY BootStays, NothingBeforeBootStep
<1>3. LoopPosition'
  <2>1. CASE UNCHANGED vars
    BY <2>1, LoopStays DEF vars, stagesVars, clusterVars, resultVars
  <2> QED  BY <2>1, LoopStep
<1>4. ClaimsExplained' /\ FindingFacts' /\ NoticeFacts'
  BY ClaimsStep, FindingStep, NoticeStep
<1>5. OutcomeFacts' /\ StageTypes'
  BY OutcomeStep
<1> QED
  BY <1>1, <1>2, <1>3, <1>4, <1>5

(* The inductive invariant, for every value of the constants.              *)
THEOREM StagesInvariant == StagesSpec => []StagesInv
BY StagesInitInv, StagesStepInv, PTL DEF StagesSpec

-----------------------------------------------------------------------------
(* What the invariant says to a reader.                                    *)

(* Every variable of execute() keeps its type.                             *)
THEOREM StagesTypeCorrect == StagesSpec => []StagesTypeOK
<1>1. StagesInv => StagesTypeOK
  BY DEF StagesInv, StageTypes, ClaimsExplained, FindingFacts, NoticeFacts, StagesTypeOK
<1> QED  BY <1>1, StagesInvariant, PTL

(* A configuration loadConfig accepted fails to boot only over the rules   *)
(* file or the Vercel gateway's model, and what boots has its credentials, *)
(* for every environment, SSM page and edit of the file.                   *)
THEOREM BootIsExplained == StagesSpec => []BootExplained
<1>1. BootFacts => BootExplained
  BY DEF BootFacts, BootExplained, Refined
<1>2. StagesInv => BootExplained
  BY <1>1 DEF StagesInv
<1> QED  BY <1>2, StagesInvariant, PTL

(* The outcome of a cluster is what the readers of its messages saw.       *)
THEOREM OutcomesAreTrue == StagesSpec => []OutcomeIsTruth
<1>1. StagesInv => OutcomeIsTruth
  BY DEF StagesInv, OutcomeFacts, NoticeFacts, OutcomeIsTruth
<1> QED  BY <1>1, StagesInvariant, PTL

(* No message is silently rerouted to the default channel, whatever the    *)
(* rules, unless the file was edited while the worker booted.              *)
THEOREM NothingRerouted == StagesSpec => []NoSilentReroute
<1>1. StagesInv => NoSilentReroute
  BY DEF StagesInv, NoticeFacts
<1> QED  BY <1>1, StagesInvariant, PTL

(* Every pre-LLM escalation of a delivered cluster was sent.               *)
THEOREM EscalationsAreSent == StagesSpec => []EscalationsSurvive
<1>1. StagesInv => EscalationsSurvive
  BY DEF StagesInv, OutcomeFacts
<1> QED  BY <1>1, StagesInvariant, PTL

(* A cluster that failed or went out undiagnosed leaves its wide event.    *)
THEOREM FailuresAreTraced == StagesSpec => []FailuresLeaveATrace
<1>1. StagesInv => FailuresLeaveATrace
  BY DEF StagesInv, OutcomeFacts
<1> QED  BY <1>1, StagesInvariant, PTL

(* A duplicate is dropped only for a holder that was delivered, suppressed *)
(* or could not be released.                                               *)
THEOREM DuplicatesAreExplained == StagesSpec => []DuplicateExplained
<1>1. StagesInv => DuplicateExplained
  BY DEF StagesInv, OutcomeFacts
<1> QED  BY <1>1, StagesInvariant, PTL

LEMMA PartitionCounts == LoopPosition => EveryAlertCounted
<1> SUFFICES ASSUME LoopPosition, stage = "idle", left = <<>>, outcome # "error",
                    NEW i \in DOMAIN alerts
             PROVE  \E e \in DOMAIN ended :
                      /\ \A f \in DOMAIN ended :
                           ended[f].fingerprint = Fingerprint(alerts[i]) <=> f = e
                      /\ Represents(ended[e], alerts, i)
  BY DEF EveryAlertCounted, Represents
<1> DEFINE all == BuildClusters(alerts)
<1>1. /\ IsSequence(all) /\ IsSequence(ended)
      /\ Len(all) = Len(ended) + 0 + Len(left)
      /\ \A k \in DOMAIN ended : ended[k] = all[k]
  BY ClustersPartition DEF LoopPosition
<1>2. PICK k \in DOMAIN all :
        /\ Represents(all[k], alerts, i)
        /\ \A l \in DOMAIN all : all[l].fingerprint = Fingerprint(alerts[i]) <=> l = k
  BY ClustersPartition DEF LoopPosition
<1> HIDE DEF all
<1>3. DOMAIN all = DOMAIN ended
  <2>1. Len(left) = 0 /\ Len(ended) \in Nat
    BY <1>1, SequenceLength
  <2>2. Len(all) = Len(ended)
    BY <1>1, <2>1
  <2> QED  BY <1>1, <2>2, SequenceLength
<1> QED  BY <1>1, <1>2, <1>3

(* However alerts, duplicates and failures mix, when a message is through  *)
(* each of its alerts was counted in exactly one cluster.                  *)
THEOREM AlertsAreCounted == StagesSpec => []EveryAlertCounted
<1>1. StagesInv => EveryAlertCounted
  BY PartitionCounts DEF StagesInv
<1> QED  BY <1>1, StagesInvariant, PTL

(* A call the worker makes asks each model as often as the chain allows.   *)
THEOREM WorkerRequestsBounded == StagesSpec => []RequestsBounded
BY WorkerCallsProvider, RequestsAreBounded, PTL

(* And it ends within one request of the chain's deadline.                 *)
THEOREM WorkerCallsBounded == StagesSpec => []CallBounded
BY WorkerCallsProvider, CallIsBounded, PTL

(* Where the composition root hands the fallback options on, the worker    *)
(* asks every configured model before it gives a call up as rate limited.  *)
THEOREM WiredWorkerTriesChain ==
  ASSUME Wirings = {TRUE}
  PROVE  StagesSpec => []FallbackTried
BY WorkerCallsProvider, WiredChainIsTried, PTL
=============================================================================
