---------------------------- MODULE AlertSources ----------------------------
(***************************************************************************)
(* Where alerts come from and what they are grouped into, as operators     *)
(* without state: normalizePayload (Alertmanager, in the webhook), the CSV *)
(* adapter and the message schema (in the worker), and ClusteringService.  *)
(*                                                                         *)
(* A label, a cell and a time are strings; the constant functions say what *)
(* the conversions of the runtime make of those that occur.                *)
(***************************************************************************)
EXTENDS RuleEngine, Integers

CONSTANTS
  Numeral,   \* Numeral[s]: Number(s), for the labels that are numbers
  Reading,   \* Reading[s]: the ISO time a CSV cell denotes, if it has one
  Instant,   \* Instant[s]: when it is, for the times the schema accepts
  CsvColumns \* per field the column of a CSV row, 0 for a setting that is
             \* no number

(* Numbers are whole, and a time is the number of an instant.              *)
ASSUME SourcesAssumption ==
  /\ \A s \in DOMAIN Numeral : Numeral[s] \in Int
  /\ \A t \in DOMAIN Instant : Instant[t] \in Int

NotANumber == -1

-----------------------------------------------------------------------------
(* Alertmanager.                                                           *)

(* The first of the places that has a value, or the default.               *)
FirstGiven(places, default) ==
  LET given == {i \in DOMAIN places : places[i].name \in DOMAIN places[i].of}
  IN  IF given = {} THEN default ELSE places[Min(given)].of[places[Min(given)].name]

Label(a, name) == [of |-> a.labels, name |-> name]
Annotation(a, name) == [of |-> a.annotations, name |-> name]

(* An error type nobody knows counts as an error.                          *)
ToAlertType(raw) == IF raw \in AlertTypes THEN raw ELSE "http_500"

(* An empty label counts as none; a missing latency as 0 when it is used.  *)
LatencyOf(a) ==
  LET given == FirstGiven(<<Label(a, "latency_ms")>>, "")
  IN  CASE given = "" -> 0
        [] given \in DOMAIN Numeral -> Numeral[given]
        [] OTHER -> NotANumber

Normalize(a) ==
  [serviceName |-> FirstGiven(<<Label(a, "service"), Label(a, "job")>>, "unknown-service"),
   alertType |-> ToAlertType(FirstGiven(<<Label(a, "error_type"), Label(a, "alertname")>>, "")),
   endpointPath |-> FirstGiven(<<Label(a, "endpoint"), Annotation(a, "endpoint")>>, "/"),
   traceId |-> FirstGiven(<<Label(a, "trace_id"), Annotation(a, "trace_id")>>, ""),
   startsAt |-> a.startsAt,
   latencyMs |-> LatencyOf(a)]

NormalizePayload(raw) ==
  LET firing == Kept(raw, {i \in DOMAIN raw : raw[i].status = "firing"})
  IN  [i \in DOMAIN firing |-> Normalize(firing[i])]

-----------------------------------------------------------------------------
(* CSV.                                                                    *)

Severities ==
  [error |-> "http_500", critical |-> "http_500", high |-> "http_500",
   warning |-> "latency_spike", warn |-> "latency_spike", latency |-> "latency_spike",
   success |-> "recovery", recovery |-> "recovery", resolved |-> "recovery",
   info |-> "recovery"]

Cell(row, field) ==
  IF CsvColumns[field] \in DOMAIN row THEN row[CsvColumns[field]] ELSE ""

(* A cell that is no time at all means now.                                *)
NormalizeTimestamp(cell) == IF cell \in DOMAIN Reading THEN Reading[cell] ELSE "now"

RowUsable(row) ==
  /\ "" \notin {Cell(row, f) : f \in {"service", "message", "severity", "timestamp"}}
  /\ Lower[Cell(row, "severity")] \in DOMAIN Severities
  /\ NormalizeTimestamp(Cell(row, "timestamp")) \in DOMAIN Instant

(* Every row is a firing alert, a resolved one too.                        *)
RowAlert(row) ==
  [serviceName |-> Cell(row, "service"),
   alertType |-> Severities[Lower[Cell(row, "severity")]],
   endpointPath |-> IF Cell(row, "endpoint") = "" THEN "/" ELSE Cell(row, "endpoint"),
   traceId |-> "",
   startsAt |-> NormalizeTimestamp(Cell(row, "timestamp")),
   latencyMs |-> 0]

(* The first line is the header; rows that cannot be used are left out.    *)
ParseCsvBody(lines) ==
  LET data == Tail(lines)
      rows == Kept(data, {i \in DOMAIN data : RowUsable(data[i])})
  IN  [i \in DOMAIN rows |-> RowAlert(rows[i])]

-----------------------------------------------------------------------------
(* The worker's parser.                                                    *)

(* SQSMessageSchema, after JSON wrote what is not a number as null.        *)
SchemaAccepts(alerts) ==
  \A i \in DOMAIN alerts :
    alerts[i].latencyMs # NotANumber /\ alerts[i].startsAt \in DOMAIN Instant

(* The alerts of a message, none for a body the record loop skips.         *)
AlertsOf(message) ==
  CASE message.format = "csv" -> ParseCsvBody(message.lines)
    [] message.format = "json" /\ SchemaAccepts(NormalizePayload(message.payload)) ->
         NormalizePayload(message.payload)
    [] OTHER -> <<>>

-----------------------------------------------------------------------------
(* Clusters.                                                               *)

Fingerprint(a) == <<Lower[a.serviceName], a.alertType, Lower[a.endpointPath]>>

(* The first element of s for which no other one is Before it.             *)
Foremost(s, Before(_, _)) ==
  s[Min({i \in DOMAIN s : \A j \in DOMAIN s : ~Before(s[j], s[i])})]

Earlier(a, b) == Instant[a.startsAt] < Instant[b.startsAt]
Slower(a, b) == a.latencyMs > b.latencyMs

(* The value at the index of the 99th percentile, counted from 0.          *)
LatencyP99(group) ==
  LET index == (99 * Len(group)) \div 100
      Below(x) == Cardinality({i \in DOMAIN group : group[i].latencyMs < x})
      UpTo(x) == Cardinality({i \in DOMAIN group : group[i].latencyMs <= x})
  IN  CHOOSE x \in {group[i].latencyMs : i \in DOMAIN group} : Below(x) <= index /\ index < UpTo(x)

(* At most two traces: that of the earliest alert and that of the slowest, *)
(* the earliest if there is none slower.                                   *)
SampleTraceIds(group) ==
  LET traced == Kept(group, {i \in DOMAIN group : group[i].traceId # ""})
      first == Foremost(traced, Earlier)
      slowest == IF \E i \in DOMAIN traced : Slower(traced[i], first)
                 THEN Foremost(traced, Slower) ELSE first
  IN  IF traced = <<>> THEN {} ELSE {first.traceId, slowest.traceId}

BuildCluster(group) ==
  LET first == Foremost(group, Earlier)
  IN  [fingerprint |-> Fingerprint(first), serviceName |-> first.serviceName,
       alertType |-> first.alertType, endpointPath |-> first.endpointPath,
       alertCount |-> Len(group), representativeTraceIds |-> SampleTraceIds(group),
       firstSeenAt |-> first.startsAt, latencyP99Ms |-> LatencyP99(group), labels |-> {}]

(* The alerts with the fingerprint of the i-th.                            *)
GroupOf(alerts, i) ==
  Kept(alerts, {j \in DOMAIN alerts : Fingerprint(alerts[j]) = Fingerprint(alerts[i])})

(* One cluster per fingerprint, in the order the fingerprints first occur. *)
BuildClusters(alerts) ==
  LET leads == {i \in DOMAIN alerts :
                  \A j \in 1..(i - 1) : Fingerprint(alerts[j]) # Fingerprint(alerts[i])}
  IN  [k \in 1..Cardinality(leads) |-> BuildCluster(GroupOf(alerts, Nth(leads, k)))]
=============================================================================
