-------------------------- MODULE AlertSourcesProofs --------------------------
(***************************************************************************)
(* What the rule engine, the parsers and the clustering return, for every  *)
(* rules file and every message.                                           *)
(***************************************************************************)
EXTENDS AlertSources, SubsequenceProofs

-----------------------------------------------------------------------------
(* Rules.                                                                  *)

(* The engine hands on nothing but the actions of one of its rules.        *)
IsRules(rules) ==
  IsSequence(rules) /\ \A i \in DOMAIN rules : IsSequence(rules[i].actions)

(* A result whose actions name channels of C only.                         *)
NamesOnly(result, C) ==
  /\ IsSequence(result.actions)
  /\ result.suppressed \in BOOLEAN
  /\ \A i \in DOMAIN result.actions : result.actions[i].channel \in C

LEMMA EvaluateNames ==
  ASSUME NEW rules, IsRules(rules), NEW c, NEW a
  PROVE  NamesOnly(Evaluate(rules, c, a), UNION {ChannelsOf(rules[i]) : i \in DOMAIN rules})
<1> DEFINE hits == {i \in DOMAIN rules : Matches(rules[i].condition, c, a)}
           C == UNION {ChannelsOf(rules[i]) : i \in DOMAIN rules}
<1>1. CASE hits = {}
  <2>1. Evaluate(rules, c, a) = PassThrough
    BY <1>1 DEF Evaluate
  <2> QED  BY <2>1 DEF PassThrough, NamesOnly, IsSequence
<1>2. CASE hits # {}
  <2> DEFINE h == Min(hits)
             acts == rules[h].actions
             K == {j \in DOMAIN acts : acts[j].type \in {"route", "escalate"}}
  <2>1. h \in DOMAIN rules
    <3>1. hits \in SUBSET Nat /\ hits \subseteq DOMAIN rules
      BY DEF IsRules, IsSequence
    <3> HIDE DEF hits
    <3> QED  BY <1>2, <3>1, MinIsLeast
  <2>2. Evaluate(rules, c, a) = Dispatch(h, acts)
    BY <1>2 DEF Evaluate
  <2>3. /\ Kept(acts, K) \in Seq({acts[j] : j \in DOMAIN acts})
        /\ \A n \in DOMAIN Kept(acts, K) : \E j \in K : Kept(acts, K)[n] = acts[j]
    <3>1. acts \in Seq({acts[j] : j \in DOMAIN acts}) /\ K \in SUBSET (DOMAIN acts)
      BY <2>1 DEF IsRules, IsSequence
    <3> HIDE DEF acts, K
    <3> QED  BY <3>1, KeptElements
  <2>4. IsSequence(Kept(acts, K))
    BY <2>3, SeqIsSequence
  <2>5. \A j \in K : acts[j].channel \in C
    <3>1. \A j \in K : acts[j].channel \in ChannelsOf(rules[h])
      BY DEF ChannelsOf
    <3>2. ChannelsOf(rules[h]) \subseteq C
      BY <2>1
    <3> QED  BY <3>1, <3>2
  <2> HIDE DEF h, K, C
  <2>6. \A n \in DOMAIN Kept(acts, K) : Kept(acts, K)[n].channel \in C
    BY <2>3, <2>5
  <2> QED  BY <2>2, <2>4, <2>6 DEF Dispatch, NamesOnly, K, C
<1> QED  BY <1>1, <1>2

(* The channels of a result are a sequence of names it has.                *)
LEMMA ChannelsNamed ==
  ASSUME NEW result, NEW C, NamesOnly(result, C), NEW type
  PROVE  Channels(result, type) \in Seq(C)
<1> DEFINE acts == result.actions
           K == {i \in DOMAIN acts : acts[i].type = type}
<1>1. acts \in Seq({acts[i] : i \in DOMAIN acts}) /\ K \in SUBSET (DOMAIN acts)
  BY DEF NamesOnly, IsSequence
<1>2. /\ Kept(acts, K) \in Seq({acts[i] : i \in DOMAIN acts})
      /\ \A n \in DOMAIN Kept(acts, K) : \E i \in K : Kept(acts, K)[n] = acts[i]
  <2> HIDE DEF acts, K
  <2> QED  BY <1>1, KeptElements
<1>3. \A n \in DOMAIN Kept(acts, K) : Kept(acts, K)[n].channel \in C
  BY <1>2 DEF NamesOnly
<1>4. Channels(result, type) = [n \in DOMAIN Kept(acts, K) |-> Kept(acts, K)[n].channel]
  BY DEF Channels
<1> HIDE DEF acts, K
<1>5. DOMAIN Kept(acts, K) = 1..Len(Kept(acts, K)) /\ Len(Kept(acts, K)) \in Nat
  BY <1>2
<1> QED  BY <1>3, <1>4, <1>5

-----------------------------------------------------------------------------
(* Messages.                                                               *)

(* The alerts execute() is given: their latencies and times are numbers.   *)
IsAlerts(s) ==
  /\ IsSequence(s)
  /\ \A i \in DOMAIN s : s[i].latencyMs \in Int /\ Instant[s[i].startsAt] \in Int

(* A body as the queue delivers it.                                        *)
IsMessage(m) ==
  /\ m.format = "json" => IsSequence(m.payload)
  /\ m.format = "csv" => IsSequence(m.lines) /\ m.lines # <<>>

(* A function applied to what a filter keeps.                              *)
LEMMA KeptSequence ==
  ASSUME NEW s, IsSequence(s), NEW K \in SUBSET (DOMAIN s)
  PROVE  /\ IsSequence(Kept(s, K)) /\ Len(Kept(s, K)) = Cardinality(K)
         /\ Cardinality(K) \in Nat /\ IsFiniteSet(K)
         /\ DOMAIN Kept(s, K) = 1..Cardinality(K)
         /\ \A n \in DOMAIN Kept(s, K) : \E i \in K : Kept(s, K)[n] = s[i]
         /\ \A i \in K : \E n \in DOMAIN Kept(s, K) : Kept(s, K)[n] = s[i]
<1> DEFINE S == {s[i] : i \in DOMAIN s}
<1>1. s \in Seq(S)
  BY DEF IsSequence
<1> HIDE DEF S
<1>2. /\ Kept(s, K) \in Seq(S) /\ Len(Kept(s, K)) = Cardinality(K)
      /\ Cardinality(K) \in Nat /\ IsFiniteSet(K)
      /\ \A n \in DOMAIN Kept(s, K) : \E i \in K : Kept(s, K)[n] = s[i]
      /\ \A i \in K : \E n \in DOMAIN Kept(s, K) : Kept(s, K)[n] = s[i]
  BY <1>1, KeptElements
<1>3. IsSequence(Kept(s, K))
  BY <1>2, SeqIsSequence
<1>4. DOMAIN Kept(s, K) = 1..Cardinality(K)
  BY <1>2
<1> QED  BY <1>2, <1>3, <1>4

LEMMA MappedSequence ==
  ASSUME NEW n \in Nat, NEW t, t = [i \in 1..n |-> t[i]]
  PROVE  IsSequence(t) /\ DOMAIN t = 1..n
<1>1. DOMAIN t = 1..n
  OBVIOUS
<1>2. \A i \in 1..n : t[i] \in {t[j] : j \in DOMAIN t}
  BY <1>1
<1> QED  BY <1>1, <1>2 DEF IsSequence

LEMMA LatencyNumber == \A a : LatencyOf(a) \in Int
<1> SUFFICES ASSUME NEW a PROVE LatencyOf(a) \in Int
  OBVIOUS
<1> DEFINE given == FirstGiven(<<Label(a, "latency_ms")>>, "")
           chosen == CASE given = "" -> 0
                       [] given \in DOMAIN Numeral -> Numeral[given]
                       [] OTHER -> NotANumber
<1>1. LatencyOf(a) = chosen
  BY DEF LatencyOf
<1> HIDE DEF given
<1>2. NotANumber \in Int
  BY DEF NotANumber
<1>3. CASE given \in DOMAIN Numeral
  <2>1. chosen \in {0, Numeral[given], NotANumber}
    OBVIOUS
  <2>2. Numeral[given] \in Int
    BY <1>3, SourcesAssumption DEF SourcesAssumption
  <2> HIDE DEF chosen
  <2> QED  BY <1>1, <1>2, <2>1, <2>2
<1>4. CASE given \notin DOMAIN Numeral
  <2>1. chosen \in {0, NotANumber}
    BY <1>4
  <2> HIDE DEF chosen
  <2> QED  BY <1>1, <1>2, <2>1
<1> QED  BY <1>3, <1>4

LEMMA JsonAlerts ==
  ASSUME NEW raw, IsSequence(raw), SchemaAccepts(NormalizePayload(raw))
  PROVE  IsAlerts(NormalizePayload(raw))
<1> DEFINE K == {i \in DOMAIN raw : raw[i].status = "firing"}
           firing == Kept(raw, K)
<1>1. NormalizePayload(raw) = [i \in DOMAIN firing |-> Normalize(firing[i])]
  BY DEF NormalizePayload
<1>2. DOMAIN firing = 1..Cardinality(K) /\ Cardinality(K) \in Nat
  BY KeptSequence
<1>3. \A a : Normalize(a).latencyMs \in Int
  BY LatencyNumber DEF Normalize
<1> HIDE DEF K, firing
<1>4. IsSequence(NormalizePayload(raw)) /\ DOMAIN NormalizePayload(raw) = DOMAIN firing
  <2> DEFINE t == NormalizePayload(raw)
  <2>1. t = [i \in 1..Cardinality(K) |-> t[i]]
    BY <1>1, <1>2
  <2> HIDE DEF t
  <2>2. IsSequence(t) /\ DOMAIN t = 1..Cardinality(K)
    BY <1>2, <2>1, MappedSequence
  <2> QED  BY <1>2, <2>2 DEF t
<1>5. ASSUME NEW i \in DOMAIN NormalizePayload(raw)
      PROVE  /\ NormalizePayload(raw)[i].latencyMs \in Int
             /\ Instant[NormalizePayload(raw)[i].startsAt] \in Int
  BY <1>1, <1>3, <1>4, <1>5, SourcesAssumption DEF SchemaAccepts, SourcesAssumption
<1> QED  BY <1>4, <1>5 DEF IsAlerts

LEMMA CsvAlerts ==
  ASSUME NEW lines, IsSequence(lines), lines # <<>>
  PROVE  IsAlerts(ParseCsvBody(lines))
<1> DEFINE data == Tail(lines)
           K == {i \in DOMAIN data : RowUsable(data[i])}
           rows == Kept(data, K)
<1>1. ParseCsvBody(lines) = [i \in DOMAIN rows |-> RowAlert(rows[i])]
  BY DEF ParseCsvBody
<1>2. IsSequence(data)
  <2>1. data \in Seq({lines[i] : i \in DOMAIN lines})
    BY DEF IsSequence
  <2> QED  BY <2>1, SeqIsSequence
<1>3. /\ DOMAIN rows = 1..Cardinality(K) /\ Cardinality(K) \in Nat
      /\ \A n \in DOMAIN rows : \E i \in K : rows[n] = data[i]
  <2>1. K \in SUBSET (DOMAIN data)
    OBVIOUS
  <2> HIDE DEF data, K
  <2> QED  BY <1>2, <2>1, KeptSequence
<1>4. \A n \in DOMAIN rows : RowUsable(rows[n])
  BY <1>3
<1> HIDE DEF data, K, rows
<1>5. IsSequence(ParseCsvBody(lines)) /\ DOMAIN ParseCsvBody(lines) = DOMAIN rows
  <2> DEFINE t == ParseCsvBody(lines)
  <2>1. t = [i \in 1..Cardinality(K) |-> t[i]]
    BY <1>1, <1>3
  <2> HIDE DEF t
  <2>2. IsSequence(t) /\ DOMAIN t = 1..Cardinality(K)
    BY <1>3, <2>1, MappedSequence
  <2> QED  BY <1>3, <2>2 DEF t
<1>6. ASSUME NEW i \in DOMAIN ParseCsvBody(lines)
      PROVE  /\ ParseCsvBody(lines)[i].latencyMs \in Int
             /\ Instant[ParseCsvBody(lines)[i].startsAt] \in Int
  <2>1. ParseCsvBody(lines)[i] = RowAlert(rows[i]) /\ RowUsable(rows[i])
    BY <1>1, <1>4, <1>5
  <2>2. RowAlert(rows[i]).latencyMs = 0 /\ RowAlert(rows[i]).startsAt \in DOMAIN Instant
    BY <2>1 DEF RowAlert, RowUsable
  <2> QED  BY <2>1, <2>2, SourcesAssumption DEF SourcesAssumption
<1> QED  BY <1>5, <1>6 DEF IsAlerts

(* Whatever arrives, execute() is given alerts.                            *)
LEMMA MessageAlerts ==
  ASSUME NEW m, IsMessage(m)
  PROVE  IsAlerts(AlertsOf(m))
<1>1. CASE m.format = "csv"
  BY <1>1, CsvAlerts DEF IsMessage, AlertsOf
<1>2. CASE m.format = "json" /\ SchemaAccepts(NormalizePayload(m.payload))
  BY <1>2, JsonAlerts DEF IsMessage, AlertsOf
<1>3. CASE AlertsOf(m) = <<>>
  BY <1>3 DEF IsAlerts, IsSequence
<1> QED  BY <1>1, <1>2, <1>3 DEF AlertsOf

-----------------------------------------------------------------------------
(* Clusters.                                                               *)

LEMMA KeptAlerts ==
  ASSUME NEW s, IsAlerts(s), NEW K \in SUBSET (DOMAIN s)
  PROVE  IsAlerts(Kept(s, K))
<1>1. IsSequence(s)
  BY DEF IsAlerts
<1>2. /\ IsSequence(Kept(s, K))
      /\ \A n \in DOMAIN Kept(s, K) : \E i \in K : Kept(s, K)[n] = s[i]
  BY <1>1, KeptSequence
<1> QED  BY <1>2 DEF IsAlerts

LEMMA EarliestAlert ==
  ASSUME NEW s, IsAlerts(s), s # <<>>
  PROVE  \E i \in DOMAIN s : Foremost(s, Earlier) = s[i]
<1> DEFINE f == [i \in DOMAIN s |-> Instant[s[i].startsAt]]
           first == {i \in DOMAIN s : \A j \in DOMAIN s : ~Earlier(s[j], s[i])}
<1>1. DOMAIN s = 1..Len(s) /\ Len(s) \in Nat /\ Len(s) # 0
  BY DEF IsAlerts, IsSequence
<1>2. \A i \in 1..Len(s) : f[i] \in Int
  BY <1>1 DEF IsAlerts
<1>3. PICK i \in 1..Len(s) : \A j \in 1..Len(s) : f[i] <= f[j]
  <2> HIDE DEF f
  <2> QED  BY <1>1, <1>2, LeastValue
<1>4. i \in first
  BY <1>1, <1>2, <1>3 DEF Earlier
<1>5. first \in SUBSET Nat /\ first \subseteq DOMAIN s
  BY <1>1
<1>6. Min(first) \in DOMAIN s
  <2> HIDE DEF first
  <2> QED  BY <1>4, <1>5, MinIsLeast
<1> QED  BY <1>6 DEF Foremost

LEMMA SlowestAlert ==
  ASSUME NEW s, IsAlerts(s), s # <<>>
  PROVE  \E i \in DOMAIN s : /\ Foremost(s, Slower) = s[i]
                             /\ \A j \in DOMAIN s : s[j].latencyMs <= s[i].latencyMs
<1> DEFINE f == [i \in DOMAIN s |-> 0 - s[i].latencyMs]
           first == {i \in DOMAIN s : \A j \in DOMAIN s : ~Slower(s[j], s[i])}
<1>1. DOMAIN s = 1..Len(s) /\ Len(s) \in Nat /\ Len(s) # 0
  BY DEF IsAlerts, IsSequence
<1>2. \A i \in 1..Len(s) : s[i].latencyMs \in Int /\ f[i] = 0 - s[i].latencyMs
  BY <1>1 DEF IsAlerts
<1>3. PICK i \in 1..Len(s) : \A j \in 1..Len(s) : f[i] <= f[j]
  <2>1. ASSUME NEW i \in 1..Len(s) PROVE f[i] \in Int
    <3>1. s[i].latencyMs \in Int /\ f[i] = 0 - s[i].latencyMs
      BY <1>2
    <3> HIDE DEF f
    <3> QED  BY <3>1
  <2> HIDE DEF f
  <2> QED  BY <1>1, <2>1, LeastValue
<1>4. i \in first
  <2>1. ASSUME NEW j \in DOMAIN s PROVE ~Slower(s[j], s[i])
    <3>1. f[i] <= f[j] /\ f[i] = 0 - s[i].latencyMs /\ f[j] = 0 - s[j].latencyMs
      BY <1>1, <1>2, <1>3
    <3>2. s[i].latencyMs \in Int /\ s[j].latencyMs \in Int
      BY <1>1, <1>2
    <3> QED  BY <3>1, <3>2 DEF Slower
  <2> QED  BY <1>1, <2>1
<1>5. first \in SUBSET Nat
  BY <1>1
<1>6. Min(first) \in first
  <2> HIDE DEF first
  <2> QED  BY <1>4, <1>5, MinIsLeast
<1>7. Min(first) \in DOMAIN s /\ \A j \in DOMAIN s : ~Slower(s[j], s[Min(first)])
  BY <1>6
<1>8. \A j \in DOMAIN s : s[j].latencyMs <= s[Min(first)].latencyMs
  <2> HIDE DEF first
  <2> QED  BY <1>1, <1>2, <1>7 DEF Slower
<1> QED  BY <1>7, <1>8 DEF Foremost

(* The sample of a group: traces of its alerts, that of a slowest one among*)
(* them.                                                                   *)
LEMMA SampledTraces ==
  ASSUME NEW s, IsAlerts(s)
  PROVE  LET traced == {s[i] : i \in {k \in DOMAIN s : s[k].traceId # ""}}
         IN  /\ SampleTraceIds(s) \subseteq {a.traceId : a \in traced}
             /\ traced # {} =>
                  \E a \in traced : /\ a.traceId \in SampleTraceIds(s)
                                    /\ \A b \in traced : b.latencyMs <= a.latencyMs
<1> DEFINE K == {i \in DOMAIN s : s[i].traceId # ""}
           traced == {s[i] : i \in K}
           t == Kept(s, K)
           first == Foremost(t, Earlier)
           slowest == IF \E i \in DOMAIN t : Slower(t[i], first) THEN Foremost(t, Slower) ELSE first
<1>0. SampleTraceIds(s) = IF t = <<>> THEN {} ELSE {first.traceId, slowest.traceId}
  BY DEF SampleTraceIds
<1>1. IsAlerts(t)
  BY KeptAlerts
<1>2. /\ \A n \in DOMAIN t : \E i \in K : t[n] = s[i]
      /\ \A i \in K : \E n \in DOMAIN t : t[n] = s[i]
  <2>1. IsSequence(s) /\ K \in SUBSET (DOMAIN s)
    BY DEF IsAlerts
  <2> HIDE DEF K
  <2> QED  BY <2>1, KeptSequence
<1> HIDE DEF K, t, first, slowest
<1>3. traced = {t[n] : n \in DOMAIN t}
  BY <1>2
<1> HIDE DEF traced
<1>4. CASE t = <<>>
  <2>1. traced = {}
    BY <1>3, <1>4
  <2> QED  BY <1>0, <1>4, <2>1 DEF traced, K
<1>5. CASE t # <<>>
  <2>1. first \in traced
    BY <1>1, <1>3, <1>5, EarliestAlert DEF first
  <2>2. slowest \in traced /\ \A b \in traced : b.latencyMs <= slowest.latencyMs
    <3>1. CASE \E i \in DOMAIN t : Slower(t[i], first)
      BY <1>1, <1>3, <1>5, <3>1, SlowestAlert DEF slowest
    <3>2. CASE ~ \E i \in DOMAIN t : Slower(t[i], first)
      <4>1. \A i \in DOMAIN t : t[i].latencyMs \in Int
        BY <1>1 DEF IsAlerts
      <4>2. first.latencyMs \in Int
        BY <1>3, <2>1, <4>1
      <4>3. \A i \in DOMAIN t : t[i].latencyMs <= first.latencyMs
        BY <3>2, <4>1, <4>2 DEF Slower
      <4> QED  BY <1>3, <2>1, <3>2, <4>3 DEF slowest
    <3> QED  BY <3>1, <3>2
  <2> QED  BY <1>0, <1>5, <2>1, <2>2 DEF traced, K
<1> QED  BY <1>4, <1>5

-----------------------------------------------------------------------------
(* What a cluster says of the alerts with its fingerprint.                 *)
Represents(c, s, i) ==
  LET mine == {j \in DOMAIN s : Fingerprint(s[j]) = Fingerprint(s[i])}
      traced == {s[j] : j \in {k \in mine : s[k].traceId # ""}}
  IN  /\ c.fingerprint = Fingerprint(s[i])
      /\ c.alertCount = Cardinality(mine)
      /\ c.representativeTraceIds \subseteq {a.traceId : a \in traced}
      /\ traced # {} =>
           \E a \in traced : /\ a.traceId \in c.representativeTraceIds
                             /\ \A b \in traced : b.latencyMs <= a.latencyMs

LEMMA ClusterRepresents ==
  ASSUME NEW s, IsAlerts(s), NEW i \in DOMAIN s
  PROVE  Represents(BuildCluster(GroupOf(s, i)), s, i)
<1> DEFINE mine == {j \in DOMAIN s : Fingerprint(s[j]) = Fingerprint(s[i])}
           group == Kept(s, mine)
           traced == {s[j] : j \in {k \in mine : s[k].traceId # ""}}
           c == BuildCluster(group)
<1>0. GroupOf(s, i) = group
  BY DEF GroupOf
<1>1. IsAlerts(group)
  BY KeptAlerts
<1>2. /\ Len(group) = Cardinality(mine)
      /\ \A n \in DOMAIN group : \E j \in mine : group[n] = s[j]
      /\ \A j \in mine : \E n \in DOMAIN group : group[n] = s[j]
  <2>1. IsSequence(s) /\ mine \in SUBSET (DOMAIN s)
    BY DEF IsAlerts
  <2> HIDE DEF mine
  <2> QED  BY <2>1, KeptSequence
<1>3. \A j \in mine : Fingerprint(s[j]) = Fingerprint(s[i])
  OBVIOUS
<1>5. group # <<>>
  <2>1. i \in mine
    OBVIOUS
  <2> HIDE DEF mine
  <2> QED  BY <1>2, <2>1
<1> HIDE DEF group
<1>4. \A n \in DOMAIN group : Fingerprint(group[n]) = Fingerprint(s[i])
  <2> HIDE DEF mine
  <2> QED  BY <1>2, <1>3
<1>6. c.fingerprint = Fingerprint(Foremost(group, Earlier)) /\ c.alertCount = Len(group)
      /\ c.representativeTraceIds = SampleTraceIds(group)
  BY DEF BuildCluster
<1>7. c.fingerprint = Fingerprint(s[i])
  BY <1>1, <1>4, <1>5, <1>6, EarliestAlert
<1> HIDE DEF c
<1>8. /\ c.representativeTraceIds \subseteq {a.traceId : a \in traced}
      /\ traced # {} =>
           \E a \in traced : /\ a.traceId \in c.representativeTraceIds
                             /\ \A b \in traced : b.latencyMs <= a.latencyMs
  <2> DEFINE sampled == {group[n] : n \in {k \in DOMAIN group : group[k].traceId # ""}}
  <2>1. /\ SampleTraceIds(group) \subseteq {a.traceId : a \in sampled}
        /\ sampled # {} =>
             \E a \in sampled : /\ a.traceId \in SampleTraceIds(group)
                               /\ \A b \in sampled : b.latencyMs <= a.latencyMs
    BY <1>1, SampledTraces
  <2>2. sampled = traced
    <3> HIDE DEF mine
    <3>1. ASSUME NEW x \in sampled PROVE x \in traced
      <4>1. PICK n \in DOMAIN group : group[n].traceId # "" /\ x = group[n]
        OBVIOUS
      <4>2. PICK j \in mine : group[n] = s[j]
        BY <1>2
      <4>3. j \in {k \in mine : s[k].traceId # ""} /\ x = s[j]
        BY <4>1, <4>2
      <4> QED  BY <4>3
    <3>2. ASSUME NEW x \in traced PROVE x \in sampled
      <4>1. PICK j \in mine : s[j].traceId # "" /\ x = s[j]
        OBVIOUS
      <4>2. PICK n \in DOMAIN group : group[n] = s[j]
        BY <1>2
      <4>3. n \in {k \in DOMAIN group : group[k].traceId # ""} /\ x = group[n]
        BY <4>1, <4>2
      <4> QED  BY <4>3
    <3> QED  BY <3>1, <3>2
  <2> HIDE DEF sampled, traced
  <2> QED  BY <1>6, <2>1, <2>2
<1>9. Represents(c, s, i)
  BY <1>2, <1>6, <1>7, <1>8 DEF Represents
<1> QED  BY <1>0, <1>9 DEF c

(* Each alert belongs to exactly one of the clusters, which represents it. *)
THEOREM ClustersPartition ==
  ASSUME NEW s, IsAlerts(s)
  PROVE  /\ IsSequence(BuildClusters(s))
         /\ \A k \in DOMAIN BuildClusters(s) :
              \E i \in DOMAIN s : BuildClusters(s)[k].fingerprint = Fingerprint(s[i])
         /\ \A i \in DOMAIN s :
              \E k \in DOMAIN BuildClusters(s) :
                /\ Represents(BuildClusters(s)[k], s, i)
                /\ \A l \in DOMAIN BuildClusters(s) :
                     BuildClusters(s)[l].fingerprint = Fingerprint(s[i]) <=> l = k
<1> DEFINE leads == {i \in DOMAIN s : \A j \in 1..(i - 1) : Fingerprint(s[j]) # Fingerprint(s[i])}
           n == Cardinality(leads)
           b == BuildClusters(s)
<1>1. DOMAIN s = 1..Len(s) /\ Len(s) \in Nat
  BY DEF IsAlerts, IsSequence
<1>2. leads \in SUBSET Nat /\ IsFiniteSet(leads) /\ leads \subseteq DOMAIN s
  <2>1. leads \in SUBSET (DOMAIN s) /\ IsFiniteSet(DOMAIN s)
    BY <1>1, FS_Interval
  <2> HIDE DEF leads
  <2> QED  BY <1>1, <2>1, FS_Subset
<1>3. /\ n \in Nat
      /\ \A k \in 1..n : Nth(leads, k) \in leads /\ Rank(leads, Nth(leads, k)) = k
      /\ \A i \in leads : Rank(leads, i) \in 1..n /\ Nth(leads, Rank(leads, i)) = i
  <2> HIDE DEF leads
  <2> QED  BY <1>2, NthIndex
<1>4. b = [k \in 1..n |-> BuildCluster(GroupOf(s, Nth(leads, k)))]
  BY DEF BuildClusters
<1>5. IsSequence(b) /\ DOMAIN b = 1..n
  <2>1. b = [k \in 1..n |-> b[k]]
    BY <1>4
  <2> HIDE DEF b, leads
  <2> QED  BY <1>3, <2>1, MappedSequence
<1>6. \A i, j \in leads : Fingerprint(s[i]) = Fingerprint(s[j]) => i = j
  <2> SUFFICES ASSUME NEW i \in leads, NEW j \in leads, i < j PROVE Fingerprint(s[i]) # Fingerprint(s[j])
    BY <1>2
  <2>1. i \in Nat /\ j \in Nat /\ i \in DOMAIN s
    BY <1>2
  <2>2. i \in 1..(j - 1)
    BY <1>1, <2>1
  <2> QED  BY <2>2
<1>7. ASSUME NEW k \in 1..n
      PROVE  Nth(leads, k) \in DOMAIN s /\ Represents(b[k], s, Nth(leads, k))
  <2>1. Nth(leads, k) \in DOMAIN s
    BY <1>2, <1>3
  <2>2. b[k] = BuildCluster(GroupOf(s, Nth(leads, k)))
    BY <1>4
  <2> HIDE DEF b, leads
  <2> QED  BY <2>1, <2>2, ClusterRepresents
<1>8. ASSUME NEW i \in DOMAIN s PROVE \E l \in leads : Fingerprint(s[l]) = Fingerprint(s[i])
  <2> DEFINE mine == {j \in DOMAIN s : Fingerprint(s[j]) = Fingerprint(s[i])}
  <2>1. mine \in SUBSET Nat /\ i \in mine
    BY <1>1
  <2>2. PICK l \in mine : \A j \in mine : l <= j
    <3> HIDE DEF mine
    <3> QED  BY <2>1, LeastNatural
  <2>3. \A j \in 1..(l - 1) : Fingerprint(s[j]) # Fingerprint(s[l])
    <3> SUFFICES ASSUME NEW j \in 1..(l - 1), Fingerprint(s[j]) = Fingerprint(s[l]) PROVE FALSE
      OBVIOUS
    <3>1. l \in 1..Len(s) /\ Fingerprint(s[l]) = Fingerprint(s[i])
      BY <1>1, <2>2
    <3>2. j \in mine /\ j < l /\ j \in Nat
      BY <1>1, <3>1
    <3>3. l <= j
      BY <2>2, <3>2
    <3> QED  BY <3>1, <3>2, <3>3
  <2>4. l \in leads
    BY <2>2, <2>3
  <2> QED  BY <2>2, <2>4
<1> HIDE DEF b, leads
<1>9. \A k \in 1..n : b[k].fingerprint = Fingerprint(s[Nth(leads, k)])
  BY <1>7 DEF Represents
<1>10. ASSUME NEW i \in DOMAIN s
       PROVE  \E k \in 1..n : /\ Represents(b[k], s, i)
                              /\ \A l \in 1..n : b[l].fingerprint = Fingerprint(s[i]) <=> l = k
  <2>1. PICK l \in leads : Fingerprint(s[l]) = Fingerprint(s[i])
    BY <1>8
  <2>2. PICK k \in 1..n : Nth(leads, k) = l
    BY <1>3
  <2>3. Represents(b[k], s, l)
    BY <1>7, <2>2
  <2>4. Represents(b[k], s, i)
    BY <2>1, <2>3 DEF Represents
  <2>5. ASSUME NEW m \in 1..n PROVE b[m].fingerprint = Fingerprint(s[i]) <=> m = k
    BY <1>3, <1>6, <1>9, <2>1, <2>2
  <2> QED  BY <2>4, <2>5
<1> QED  BY <1>5, <1>7, <1>9, <1>10 DEF b
=============================================================================
