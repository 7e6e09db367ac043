------------------------------ MODULE RuleEngine ------------------------------
(***************************************************************************)
(* The business rules of packages/core: domain/entities/rule.ts (what the  *)
(* YAML file may say), infrastructure/rules (conditions, actions, first    *)
(* match wins) as operators without state.                                 *)
(*                                                                         *)
(* A rules file is a record: yaml (well formed or not), pre and post (the  *)
(* two sections, sequences of rules) and channels (logical name to backend *)
(* settings).  A condition is a record of the fields it constrains.        *)
(***************************************************************************)
EXTENDS Subsequences, FiniteSetsExt

CONSTANT Lower   \* Lower[s]: the service name s in lower case

Fields == {"serviceName", "alertType", "severity", "endpointPath", "alertCount",
           "latencyP99Ms", "labels", "urgencyLevel", "requiresRollback", "impactedServices"}

AlertTypes == {"http_500", "latency_spike", "recovery"}
SeverityLevels == {"critical", "high", "medium", "low"}
Urgencies == {"low", "medium", "high", "critical"}
ActionTypes == {"suppress", "route", "escalate", "tag"}

(* ALERT_TYPE_LABELS: the severity a cluster of each alert type has.       *)
SeverityOf == [http_500 |-> "critical", latency_spike |-> "warning", recovery |-> "info"]

-----------------------------------------------------------------------------
(* The schema of the rules file.                                           *)

(* The channels a rule's route and escalate actions name.                  *)
ChannelsOf(rule) ==
  {rule.actions[i].channel : i \in {j \in DOMAIN rule.actions :
                                      rule.actions[j].type \in {"route", "escalate"}}}

ValidCondition(c) ==
  /\ "alertType" \in DOMAIN c => c.alertType \in AlertTypes
  /\ "severity" \in DOMAIN c => c.severity \in SeverityLevels
  /\ "urgencyLevel" \in DOMAIN c => c.urgencyLevel \in Urgencies

ValidRule(rule) ==
  /\ rule.actions # <<>> /\ ValidCondition(rule.condition)
  /\ \A i \in DOMAIN rule.actions : rule.actions[i].type \in ActionTypes
  /\ "" \notin ChannelsOf(rule)

(* Slack channels start with #, Teams channels name an env var.            *)
ValidChannel(ch) ==
  \/ ch.type = "slack" /\ ch.hash
  \/ ch.type = "teams" /\ ch.envVar # ""

(* parseRuleConfig throws unless the whole file is valid.                  *)
Parses(file) ==
  /\ file.yaml
  /\ \A i \in DOMAIN file.pre : ValidRule(file.pre[i])
  /\ \A i \in DOMAIN file.post : ValidRule(file.post[i])
  /\ \A name \in DOMAIN file.channels : ValidChannel(file.channels[name])

(* The channels the rules of either section refer to.                      *)
Referenced(file) ==
  (UNION {ChannelsOf(file.pre[i]) : i \in DOMAIN file.pre})
    \union (UNION {ChannelsOf(file.post[i]) : i \in DOMAIN file.post})

-----------------------------------------------------------------------------
(* Conditions.                                                             *)

InRange(x, r) == r.min <= x /\ x <= r.max

(* One matcher per field; the last three need an analysis.                 *)
FieldMatches(f, v, c, a) ==
  \/ f = "serviceName" /\ Lower[c.serviceName] = Lower[v]
  \/ f = "alertType" /\ c.alertType = v
  \/ f = "severity" /\ SeverityOf[c.alertType] = v
  \/ f = "endpointPath" /\ c.endpointPath = v
  \/ f = "alertCount" /\ InRange(c.alertCount, v)
  \/ f = "latencyP99Ms" /\ InRange(c.latencyP99Ms, v)
  \/ f = "labels" /\ c.labels # {} /\ v \subseteq c.labels
  \/ f = "urgencyLevel" /\ a.given /\ a.urgency = v
  \/ f = "requiresRollback" /\ a.given /\ a.rollback = v
  \/ f = "impactedServices" /\ a.given /\ v \intersect a.services # {}

(* All fields the schema knows must match; it strips the others, and a     *)
(* condition left without fields matches every cluster.                    *)
Matches(cond, c, a) ==
  \A f \in DOMAIN cond \intersect Fields : FieldMatches(f, cond[f], c, a)

-----------------------------------------------------------------------------
(* Evaluation.                                                             *)

PassThrough == [matched |-> 0, suppressed |-> FALSE, actions |-> <<>>, tags |-> {}]

(* dispatchActions: what the actions of rule number i add up to.           *)
Dispatch(i, actions) ==
  [matched |-> i,
   suppressed |-> \E j \in DOMAIN actions : actions[j].type = "suppress",
   actions |-> Kept(actions, {j \in DOMAIN actions : actions[j].type \in {"route", "escalate"}}),
   tags |-> {actions[j].key : j \in {k \in DOMAIN actions : actions[k].type = "tag"}}]

(* evaluateRules: the first rule that matches, or no action at all.        *)
Evaluate(rules, c, a) ==
  LET hits == {i \in DOMAIN rules : Matches(rules[i].condition, c, a)}
  IN  IF hits = {} THEN PassThrough ELSE Dispatch(Min(hits), rules[Min(hits)].actions)

(* The channels of the actions of one type, in order.                      *)
Channels(result, type) ==
  LET acts == Kept(result.actions, {i \in DOMAIN result.actions : result.actions[i].type = type})
  IN  [i \in DOMAIN acts |-> acts[i].channel]
=============================================================================
