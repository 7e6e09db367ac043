# A verification development for Junando

Junando turns Alertmanager alerts into ChatOps incidents. Lambda A (the webhook)
validates a payload and enqueues its alerts; Lambda B (the worker) takes a
message from the FIFO queue, clusters its alerts by fingerprint, claims each
fingerprint in a deduplication store, gathers traces, asks a language model for
a diagnosis and notifies Slack or Teams. A separate family of ingest processes
polls Loki, Prometheus or another SQS queue and feeds the same use case.

This directory models the parts of that system whose behaviour depends on
interleaving, failure and time, checks them with TLC on small instances, and
proves the central facts with TLAPS for every instance.

## Inventory

| Component | State it keeps | Operations | What is hard | What makes it correct |
|---|---|---|---|---|
| `ProcessIncidentUseCase` (`packages/core/.../process-incident.use-case.ts`) | none of its own; the dedup claim it holds while a cluster is in hand | `execute`, `releaseDedupClaim` | several awaits between claim and notification; any send may fail; runs overlap | no alert disappears; one run per fingerprint; a release deletes one's own claim; the outcome reported is what readers saw |
| Worker Lambda (`packages/worker/src/handler.ts`) | the memoised use case | `handler`, `getUseCase`, record loop | cold-start failure, poison bodies, several records in one event, the Lambda timeout | what is returned normally is dealt with; what throws comes back |
| Alert queue (`packages/cdk/lib/junando-stack.ts`, `sqs.adapter.ts`) | messages, visibility, receive counts | send, receive, delete, redrive | redelivery, lost deletes, FIFO groups | each message leaves the queue, handled or parked |
| Dedup stores (`redis-dedup.adapter.ts`, `dynamodb-dedup.adapter.ts`, in-memory) | fingerprint to expiry | `isNew`, `reset` | outages (fails open), resent commands, client clocks, expiry under a running worker | one claim per fingerprint and window |
| Webhook alert endpoint (`packages/webhook/src/handler.ts`, `scripts/webhook-server.ts`) | open requests | validate, normalise, truncate, publish, inline mode, drain | FIFO deduplication by correlation id, oversize payloads, lost replies, a client that leaves | a 200 means queued; SIGTERM answers everybody |
| Slack rollback (`packages/webhook/src/handler.ts`) | none | authorise, race handler against timeout | late results, repeated clicks | the operator is told what happened |
| `SqsSubscriber` (`packages/ingest/src/polling/sqs-subscriber.ts`) | in-flight set, pending batches, capacity waiters, loop promise | `start`, `stop`, poll, process, batch delete | stop during a long poll, capacity waits, batch delete after the slowest task, failing deletes | in-flight bound, no lost wakeup, stop drains, only processed messages are deleted |
| Worker server (`scripts/worker-server.ts`, `worker-batch.ts`) | `stopping`, `currentBatch` | interval poll, SIGTERM | overlapping polls share one variable; 20 s visibility | drains what is in flight; deletes only what was announced |
| Loki and Prometheus runners (`ingest-runner.ts`, `prometheus-ingest-runner.ts`, `scripts/ingest-server.ts`) | in-flight rules, interval | `start`, `stop`, tick | slow rules, skipped ticks, late timers, two signals | windows are covered; stop drains |
| `IngestService` and runtime (`ingest-service.ts`, `scripts/ingest/runtime.ts`) | none | `process`, message processors | errors become results, then acknowledgements | a failed alert is not acknowledged |
| LLM providers (`openrouter.provider.ts`, `gemini.provider.ts`, ...), triage | circuit breaker, fallback list | `analyze`, `classify` | rate limits, retries, deadline, open breaker | bounded requests and time, fail open |
| Rules and routing (`rule-engine.ts`, `condition-evaluator.ts`, `action-dispatcher.ts`, `routing-notifier.ts`) | compiled rules, channel map | evaluate, dispatch, send | first match, unknown channels, partial sends, a file edited during a boot | no silent reroute; escalations survive |
| Configuration (`shared/config`, SSM) | its cache | `loadConfig` | pages of secrets that fail to load, empty variables | what boots has what it needs |
| Loki log buffer (`loki-transport.ts`) | bounded buffer | write, flush | overflow, concurrent flushes | bounded, nothing pushed twice or forgotten |
| Wide events (`shared/logger`) | the event under construction | sample, redact, emit | the emission of a failed cluster | errors leave a trace |
| Normalisation, CSV, clustering | none | pure functions | boundaries, one fingerprint spelled in several ways | each alert is counted once |

How they interact: the webhook and the worker share only the queue; workers
share only the queue and the dedup store; the runners call the use case
directly, so their failures are not retried by a queue; the use case calls its
ports (store, traces, LLM, rules, notifier) and awaits each of them; within one
process, requests, polls and signal handlers share the log buffer and the module
variables.

`PROJECT.json` lists the components and, under `hazards`, the places where this
code is hard to test.

## How the modules fit together

Four families, each with the instance modules that TLC checks:

| Family | Modules | About |
|---|---|---|
| the pipeline | `IncidentDelivery` (abstract), `IncidentPipeline`, `MCIncidentPipeline`; `IncidentPipelineProofs` | queue, workers and store together: crashes, redelivery, exclusion |
| the stages of a cluster | `Subsequences`, `RuleEngine`, `WorkerBoot`, `LlmProviders`, `AlertSources`, composed by `IncidentStages`; `MCIncidentStages`; `SubsequenceProofs`, `LlmProvidersProofs`, `AlertSourcesProofs`, `IncidentStagesProofs` | one worker, from its boot and a message body to the notifications and the wide event |
| the SQS ingest process | `SqsSubscriber`, `IngestRuntime`, `MCIngestRuntime`; `SqsSubscriberProofs` | the pool of tasks against a standard queue |
| the self-hosted processes | `LokiBuffer`, `WebhookServer`, `WorkerServer`, `IngestRunner`, composed by `SelfHosted`; `MCSelfHosted`; `WebhookServerProofs`, `SelfHostedProofs` | three long-running processes, their shared log buffer and their shutdown |

`IncidentPipeline` and `IncidentStages` are two views of the same use case. The
first keeps one action per await that another run can notice and lets anything
fail; the second keeps every step and the data that decides it, with one
executor. What is decided in the second (suppression, the number of sends, the
failure of one) is a free choice in the first.

What could come next: the dedup adapters with the clocks of their clients, the
schema of the ingest configuration, and the layout of messages (see "Not
modelled").

## The pipeline

### Modules

- `IncidentDelivery`: what an operator is promised, with no worker, store or
  clock: a message is accepted, its fingerprints are settled (somebody was told,
  or a rule silenced them), and it is acknowledged only when each fingerprint is
  settled or owed by a message outside the acknowledged batch.
- `IncidentPipeline`: queue, worker, use case and dedup store.
- `MCIncidentPipeline`: the instances TLC checks.
- `IncidentPipelineProofs`: the theorems.

### State and actions

| Variable | Code |
|---|---|
| `mstate`, `ahead`, `hidden`, `receives` | the message in SQS, the messages of its group it stands behind, what is left of its visibility timeout, its receive count |
| `ttl` | the dedup key: what is left of it (0: absent or expired) |
| `stage`, `batch`, `left`, `cur`, `todo`, `fp`, `togo` | one invocation: which await it is at, the event's records, the loop position of the handler, the loop position of `execute`, the sends still to make |
| `holder`, `orphaned`, `settled` | history, in no guard: whose claim it is, which fingerprints were left claimed, who was answered |

| Action | Code |
|---|---|
| `Publish`, `Receive`, `Redrive`, `Tick` | `sendMessage` in the webhook; the event source mapping; the redrive policy; time |
| `Boot`, `BootFails`, `StartRecord`, `Return`, `DeleteFails` | `_handler`: `getUseCase`, the record loop with its skips, the normal return and the delete that follows it |
| `Claim`, `Duplicate`, `FailOpen`, `LostReply` | the four outcomes of `dedup.isNew` |
| `Suppress`, `Analyze` | pre-LLM rules; traces, triage, LLM and post-LLM rules |
| `Send`, `SendLast`, `SendFails` | the primary notification and the escalations |
| `Release`, `ReleaseFails` | the catch block: `releaseDedupClaim`, then the rethrow |
| `Kill` | the Lambda timeout or the death of the environment, at any await |

One action is the code from one await to the next, as far as another run can see
it: trace queries, triage and the model read nothing that is shared, so they are
one step (`Analyze`) whose outcome decides how many sends follow. The stack's
Lambda timeout equals the queue's visibility timeout (3 minutes each), so `Tick`
does not pass the moment at which a running invocation would be cut off. The
model lets any environment fail to boot; the code does so only while its use
case is not memoised, and Lambda recycles environments.

The queue is FIFO inside a group: a message is received only with or after what
arrived before it, a group with a message in flight delivers nothing more
(`Deliverable`, `InTurn`), and `StartRecord` takes the records of one group in
the order of arrival. Between groups any order is possible.

`LostReply` models the resend of the store clients: the first `SET NX` was
executed, its reply lost, and the repeated command finds the key.

### Runs

| Run | Question | Result |
|---|---|---|
| `pipeline_delivery` | With store outages, failed cold starts and lost deletes, and with a body the worker cannot parse: is anything deleted that is neither settled nor owed by another message? | no; the pipeline implements `IncidentDelivery` |
| `pipeline_faults` | With kills, lost replies and failed releases as well: can an alert disappear in any other way than through a claim such a fault left behind? do runs exclude each other? | no; yes |
| `pipeline_drains` | Do two messages of one group, of which the second waits for the first or comes along in its batch, each leave the queue although runs are killed and deletes lost? | yes |
| `pipeline_overlap` | "two runs for the same fingerprint are never in flight simultaneously" (the comment on `releaseDedupClaim`) | refuted |
| `pipeline_timeout` | "messages re-appear in the queue, eventually hitting DLQ" (RUNBOOK, worker timeout) | refuted |

The two refuted statements are findings in `PROJECT.json`. They are about one
design decision seen from two sides: exclusion rests on the dedup claim,
not on the queue's groups, and a claim that is neither settled nor released
makes the retry a duplicate. (The same holds when the release itself fails, which
the PRD's "Dedup store failure: pipeline continues, no alerts dropped" leaves out;
the fault is one of those `pipeline_faults` admits.) `NoSilentLoss` says that this is the only way to
lose an alert, and `ExclusiveProcessing` that the claim does replace the
missing serialisation, as long as the store answers and the TTL exceeds the
visibility timeout (300 s and 180 s as deployed).

### Bounds

- Two workers, two or three messages, one or two fingerprints, two groups.
  `pipeline_delivery` is the smallest instance in which one message carries two
  clusters, two groups share a fingerprint, and one group holds a good and an
  unparseable body. In `pipeline_drains` (168,026 states) both messages are good
  and in one group, so that the FIFO order and the blocking of the group matter.
- `Visibility` 1 or 2 and `TTL` one more: the order of the two expiries, which
  is all the code depends on, is that of the deployed 180 s and 300 s. With
  `Visibility = 2` a claim taken after a tick outlives a redelivery, which the
  two runs about dropped alerts need.
- `MaxReceive` 3 as in the stack in `pipeline_drains` and in the runs that refute
  a statement, so that the counterexample is not about the DLQ; 2 in the others. `BatchSize` 2 (the stack: 1, "in
  MVP"), so that the handler's loop over records matters.
- `MaxEscalations` bounds the channels of an escalation; with 1 a send can fail
  after another one succeeded.
- Symmetry over workers in the two large safety runs; none in the liveness run.

The runs disable the deadlock check: when every message has left the queue and
every claim has expired, the system is at rest.

### Fairness

`FairSpec` assumes weak fairness of each run's own steps (a promise settles, or
the Lambda timeout ends the run) and of time; and strong fairness of receiving
and of redriving each message, because a queue that keeps offering a message to
pollers delivers it, although it is hidden in between. Faults are never
required to happen, and `Kill` may repeat without end: it is the receive count
that ends the retries.

### Proofs

`IncidentPipelineProofs` proves, for every value of the constants that
satisfies `PipelineAssumption` and `NamesAssumption`:

- `TypeCorrect`: `Spec => []TypeOK`. It needs `Shape` (the record and the
  cluster in hand belong to the batch, and batches are disjoint).
- `NothingLostSilently`: `Spec => []NoSilentLoss`. Not inductive by itself: when
  a cluster is dropped as a duplicate, somebody must answer for it. `ClaimStatus`
  says who a live claim can belong to: a busy run on that very fingerprint, whose
  own message is then still owed; a fault; or a settlement. `SettledStands` says
  that a settlement was made for somebody and that whoever asked since is
  answered, stranded or still owed. The step lemmas are split by action;
  `OwedKept` carries the weight: a message stays owed unless its own run deals
  with the fingerprint in this step.
- `ProcessingIsExclusive` and `ReleasesAreOwn`: from `BusyOwnsClaim`, a busy run
  holds the claim on its fingerprint and the claim outlives the visibility of
  every message in its batch. That is where `Visibility < TTL` is used.

`PipelineDelivers` is the refinement: when the admitted faults contain
no lost reply, failed release or kill, `Spec => DeliverySpec`. A return
acknowledges its batch (by `NoSilentLoss`, what is unsettled in it is owed by a
message outside it), a suppression or last send settles a fingerprint, a
duplicate of a settled claim rides on the settlement, everything else stutters.

The proofs rest on no unproved statement. TLC also checked the inductive
invariants on the instances above before they were proved.

Only model-checked: `QueueDrains` (liveness under fairness is outside the
prover's reach) and the two refutations.

## The stages of a cluster

### Modules

- `AlertSources`: `normalizePayload`, the CSV adapter, the worker's message
  schema and `ClusteringService`, as operators. Strings stay strings; what
  `Number`, the CSV time parser and `Date.parse` make of those that occur is
  given by constant functions.
- `RuleEngine`: the schema of the rules file, the condition matchers, first match
  and dispatch, as operators.
- `WorkerBoot`: `getUseCase` of the worker, from SSM and `loadConfig` to the
  factories and the three reads of the rules file.
- `LlmProviders`: one call of `analyze()` to any of the five kinds of provider,
  with OpenRouter's retry and fallback chain and Gemini's breaker.
- `IncidentStages` composes them: a booted worker takes messages, and `execute`
  deals with their clusters one step at a time.
- `Subsequences`: `Array.prototype.filter`, the elements of a sequence at chosen
  indices, which the rules, the fallback chain and the clusters are built with.
- `MCIncidentStages`: the instance. `SubsequenceProofs`, `LlmProvidersProofs`,
  `AlertSourcesProofs`, `IncidentStagesProofs`: the theorems.

### State and actions

| Variable | Code |
|---|---|
| `env`, `page`, `file`, `boot`, `failure`, `registry`, `engine` | `process.env` and the pages of SSM; the rules file on disk; how far `getUseCase` is and why it threw; the channel notifiers and the engine it built |
| `edited`, `ended`, `asked` | history, in no guard: the file was replaced during this boot; the clusters of the message that have ended; the models OpenRouter asked |
| `provider`, `fallbacks`, `llm`, `attempt`, `hop`, `clock`, `deadline`, `breaker`, `reply` | the provider object and the call under way |
| `stage`, `alerts`, `left`, `cluster`, `claims` | where `execute` is; the message's alerts, its clusters not reached yet, the one at hand; the dedup store, with what became of each claim's owner |
| `routed`, `analysis`, `llmError`, `degraded`, `targets`, `sent` | the locals of the loop body: the pre-LLM result, the analysis and why there is none, the channels still to notify, what was posted |
| `outcome`, `event` | how the last cluster ended, and the fields of its wide event |

| Action | Code |
|---|---|
| `LoadPage`, `PageFails`, `ParseConfig` | `loadSecretsFromSSM` and `loadConfig` |
| `BuildProviders`, `BuildChannels`, `CheckReferences`, `BuildEngine`, `BootAgain` | the factories in the order of `getUseCase`; the next attempt after one that threw |
| `EditRules` | a deployment of another rules file while a boot runs |
| `TakeMessage`, `Consider` | the record loop up to `buildClusters`; one turn of the loop over clusters |
| `IsNew`, `IsDuplicate`, `ClaimExpires` | the dedup check and the TTL |
| `EvaluatePreLlm`, `Triage`, `EvaluatePostLlm` | rules and triage; traces are fetched before triage and never fatal |
| `CallLlm`, `LlmWorks`, `BreakerResets`, `LlmReturns` | `analyze()`: its start, a step of it, the breaker's timer, its result |
| `Send`, `SendFails`, `ReleaseClaim`, `Finish` | the notifications in order, the catch block, `resolveOutcome`; each ends with the emission of the wide event (`Emit`) |

The actions of `LlmProviders` are the requests: `PrimaryAnswers`, `PrimaryFails`,
`RateLimited`, `RateLimitedAgain` for the primary model, `FallbackAnswers`,
`FallbackFails`, `FallbackRateLimited`, `FallbackGivesUp` for the chain, and the ends of a call to the other providers. Each takes as long
as `Delays` and `Backoffs` allow.

### Runs

| Run | Question | Result |
|---|---|---|
| `incident_stages` | Twenty environments, three rules files, five providers, six bodies: does a boot that fails have a reason (`BootExplained`); do calls keep their bounds (`RequestsBounded`, `CallBounded`); is each alert counted in exactly one cluster (`EveryAlertCounted`); is the outcome what readers saw (`OutcomeIsTruth`); does an alert for one channel reach another one only if the file changed during the boot (`NoSilentReroute`); do pre-LLM escalations survive triage and LLM failures (`EscalationsSurvive`); do failures leave an event (`FailuresLeaveATrace`); is a duplicate explained (`DuplicateExplained`)? | all hold |
| `incident_fallback` | "Automatic fallback chain for OpenRouter providers" (CHANGELOG) | refuted: no composition root hands the models to the provider |

`DuplicateExplained` names three owners of a claim that turn a later cluster into
a duplicate: one that was delivered, one a rule suppressed, one whose release
failed. The second is a loss when the later cluster would not have been
suppressed (another alert count or latency): the property admits it, so the hazard
of the list that describes it is in the model but refuted by nothing. In the same
way `NoSilentReroute` admits what an edit of the rules file during a boot does.

### Bounds

Messages of up to two clusters, in both formats, with an alert whose latency is
no number, with rows that are unusable, and with alerts of one fingerprint in
different spellings. `MaxClusters` 4: two clusters of one message and two of a
redelivery or of another message, so that a duplicate, a failure after a success
and the rest of a loop that failed are reached. One tick of the LLM's clock is
10 s: the fallback deadline is 6 ticks (60 s), a request takes none or 3 (nothing
in OpenRouter's provider bounds it, 30 s is where Bedrock's is aborted), a
backoff 1 or 3. Five texts of a model answer:
the JSON asked for, JSON within prose, an unknown urgency, prose, nothing. Three
rules files: one good, one with a channel nobody defined, one that does not
parse. `Wirings` says whether the provider gets the fallback models: both in
`incident_stages`, which so checks the chain as it is written; only the wiring
of the composition roots (none) in `incident_fallback`. The state space has
452,025 states.

The runs have no deadlock check, as a worker with nothing left to do is at rest.
No liveness is stated here: the loop of one executor is finite.

### Proofs

`LlmProvidersProofs` proves `RequestsAreBounded` and `CallIsBounded` from
`LlmInvariant`, for every list of models and every timing that satisfies
`LlmAssumption`. The invariant relates the requests made to the position in
the chain, and the clock to the deadline: the provider looks at the deadline
between requests only, so a call ends within two primary requests, the backoff
between them, the timeout of the chain and the one request under way when it
passes. `WiredChainIsTried` adds that where the fallback options reach the
provider, a rate limited call has asked every configured model: what
`incident_fallback` refutes is the wiring alone.

`IncidentStagesProofs` proves each invariant that `incident_stages` checks,
for all messages, rules files, environments, secrets, providers, triage answers
and texts. `StagesInvariant` is the inductive invariant `StagesInv`:

| Part | What it says | Why it is needed |
|---|---|---|
| `LlmInv`, `ReplyFacts` | the bounds of a call; a result without a reason carries an analysis, every other reply none | the worker concludes from the reply whether a cluster is diagnosed |
| `BootFacts` | what each stage of a boot found to be so still is: the settings are refined, the registry is that of the file, the channels the rules name have notifiers unless the file was edited | `BootExplained`; and `NoSilentReroute` is about a message sent long after the third read of the file |
| `NothingBeforeBoot` | no cluster is at hand, and nothing was routed, before the worker is ready | a boot step may change the engine under what was routed |
| `LoopPosition` | the clusters that ended, the one at hand and those ahead are the clusters of the message, in order, unless one failed | `EveryAlertCounted` speaks of the end of the loop only |
| `ClaimsExplained` | a claim marked running is that of the cluster at hand | `DuplicateExplained`: who finds a claim never finds a running one |
| `FindingFacts` | from the moment triage or the model is done there is an analysis exactly if nothing threw and no reason was recorded | ties the outcome to what readers see |
| `NoticeFacts` | what was sent is posted and tells of the analysis; what is still to be sent is a channel of the rules or the default; each pre-LLM escalation is among the two | `OutcomeIsTruth`, `NoSilentReroute`, `EscalationsSurvive` |
| `OutcomeFacts`, `StageTypes` | the three properties about the last outcome, which stand until the next cluster; the types left | |

`WorkerCallsProvider` is a refinement: `StagesSpec => LlmSpec`, every step of
the worker is a step of its provider's caller or a stutter. Through it the bounds
proved of the provider alone hold in the worker (`WorkerRequestsBounded`,
`WorkerCallsBounded`), and so does `WiredWorkerTriesChain`.

The data half of the argument is in two modules of lemmas. `AlertSourcesProofs`
shows that both formats yield alerts with numbers for their latencies and times
(the schema and the row filter see to it), that `Evaluate` names only channels of
the rules it was given, and `ClustersPartition`: for every array of alerts, each
belongs to exactly one cluster, which counts its fingerprint's alerts and samples
a slowest one of those with a trace. `SubsequenceProofs` shows what a filtered
array has in common with the array it was made of. The models say `Kept` where
the code says `filter`, instead of the library's `SelectSeq`: that one is a
recursive definition of which the prover knows nothing, and induction over data
is out of its reach, whereas `Kept` names the n-th index that is kept, and a
counting argument on finite sets (`NthIndex`) shows that there is one.

The assumptions are on the shapes of inputs, and TLC evaluates them:
`LlmAssumption` (bounds, and every analysis counts as given),
`SourcesAssumption` (a label that reads as a number is a whole one, and a time is
the number of an instant), `RuleFilesAssumption` and `StagesAssumption` (arrays
where the schema of the rules file and `JSON.parse` give arrays, and at least one
line in a CSV body). The parts of `StagesInv` were invariants of a TLC run on the
instance of `incident_stages` before they were proved. Only model-checked is the
refutation of `incident_fallback`.

## The SQS ingest process

### Modules

- `SqsSubscriber`: the polling loop, the pool of tasks, batch deletes, `start`
  and `stop`, against a standard queue.
- `IngestRuntime` extends it with what `createIngestRuntime` passes as
  `processMessage`: the indexing processor, which throws, and the traceability
  processor, in which `IngestService` turns errors into results.
- `MCIngestRuntime`: the instances, which check both modules.
- `SqsSubscriberProofs`: the theorems.

### State and actions

| Variable | Code |
|---|---|
| `mstate`, `receives` | the message in SQS and its receive count |
| `stopping`, `loop`, `ask` | the flag; where `runLoop` is (`off` is a null `loopPromise`, `waiting` an entry in `capacityWaiters`); the `MaxNumberOfMessages` of the receive under way |
| `inFlight`, `batches`, `ok` | the sets `inFlight` and `pendingBatches`; the successes among the results a pending batch has so far |
| `stops`, `waitB`, `waitT` | each call of `stop()`: which of its three awaits it is at, and the snapshot `Promise.allSettled` took |
| `path` | whether the configuration has an `opensearch` block |
| `processed`, `handled` | history, in no guard |

| Action | Code |
|---|---|
| `Publish`, `Expire` | a producer; the visibility timeout, which runs out whether or not a task still has the message |
| `Start`, `Turn` | `start`; one turn of the `while` in `runLoop`, with `waitForCapacity` |
| `Receive`, `ReceiveNothing`, `ReceiveLost` | the ends of `pollOnce`: messages; an empty response, an abort or an error; an abort or an error after the queue had handed messages out |
| `Settle` | `processSingleMessage` settles, with the `finally` of `trackProcess` |
| `DecodeFails`, `IndexDocument`, `ProcessAlerts` | the processors, each ending in `Settle` |
| `FinishBatch` | `processBatch` from `Promise.all` to its end, with the `finally` of `trackBatch` |
| `Stop`, `LoopEnded`, `StopBatches`, `StopTasks` | `stop`, split at its awaits |

The process is one JavaScript thread, so the code between two awaits is one
action. Two continuations that the same promise releases run back to back:
`LoopEnded` resumes all the `stop()` calls that await the loop. `waitForCapacity`
tests the capacity again in the same turn, so testing and waiting are one step.

### Runs

| Run | Question | Result |
|---|---|---|
| `ingest_safety` | With lost responses, redelivery under a running task, failing deletes, two `stop()` callers and a restart: does the pool keep its bound, is a wakeup lost, what may be deleted, does `stop` drain? | all hold |
| `ingest_live` | Does each `stop()` resolve, and is each message received although the pool is full at times? | yes |
| `ingest_swallows` | "Notifier failure → retries and routes to DLQ" (README of the repository), for the traceability processor | refuted |

Nothing in the code bounds the batches pending: a settled task gives its slot
back while its batch still waits for its slowest task. `InFlightBound` is about
tasks, as `maxInFlight` is.

### Bounds

Two messages, each received at most twice (`MaxReceives`), and two slots: a
message can be in two batches, and a batch can hold a success and a failure. Two
`stop()` callers, as `ingest-server.ts` has two signal handlers, and two loops
(`MaxStarts`), so that a `stop()` can still wait for a batch of the earlier
loop. The liveness run has one slot, less than the batch size, so that the loop
waits for capacity whenever it has a message; there the mapper rejects one of
the messages. Safety uses symmetry over messages and callers, liveness does not.

### Fairness

Weak fairness of every step of the process: promises that are ready run, a long
poll ends (20 s at most), and `processMessage` and the delete end. The last is
assumed of their callees: neither has a timeout of its own here, and a task that
never settles keeps its slot and `stop()` for ever. Strong fairness of receiving
each message, because the queue may offer others first. `Start` and `Stop` are
never required to happen.

### Proofs

`SqsSubscriberProofs`, for all constants that satisfy `SubscriberAssumption`:

- `SubscriberTypes`, `PoolIsBounded`, `NoLostWakeup` from `PoolInv`. The bound
  counts what the receive under way has asked for, which is what makes it
  inductive: the loop reads the size before an await and adds after it.
- `DeletesAreEarned` from `AckInv`: every success a batch still holds is one in
  the history.
- `StopIsDrained` from `DrainInv`: tasks belong to pending batches; while there
  is a loop and the flag is set, some `stop()` awaits the loop; once the loop is
  gone, what is pending is in the snapshot of some `stop()`.
- `RuntimeIsSubscriber`: `RuntimeSpec => Spec`, so all of these hold of the
  runtime, and `IndexingIsSafe`: on the indexing path a deleted message was
  written to the index.

`StopResolves` and `Taken` are only model-checked.

## The self-hosted processes

### Modules

- `LokiBuffer`: the buffer of log lines (`shared/logger/loki-transport.ts`), its
  flushes, and the life of the process that owns it.
- `WebhookServer`: `scripts/webhook-server.ts` with the handler behind its
  limiter, publishing to SQS, the inline mode, the rollback action, SIGTERM.
- `WorkerServer`: `scripts/worker-server.ts` and `processBatch`, with the worker's
  handler on the clusters of a batch, SIGTERM and restart.
- `IngestRunner`: `scripts/ingest-server.ts` with the Loki or the Prometheus
  runner, and shutdown on two signals.
- `SelfHosted` composes each of the three with the buffer; a behaviour is that of
  one process (`role`). `MCSelfHosted`: its instances.
- `WebhookServerProofs` (with the lemmas about the buffer) and
  `SelfHostedProofs` (with those about the worker and the runner): the theorems.

### State and actions

| Variable | Code |
|---|---|
| `proc` | the process: up, told to stop, exited, crashed |
| `buffer`, `posts`, `written`, `past` | `_buffer`; the lines of each push under way; history: every line written, every line pushed or lost |
| `req`, `input`, `status`, `queue`, `window`, `job`, `raced`, `told`, `inline`, `closing` | per request: its await, what it carries and its status; the SQS queue and the deduplication ids it remembers; the rollback handler, who won its race, what the operator reads; the inline pipeline; the SIGTERM handler |
| `poll`, `batch`, `left`, `cur`, `claim`, `useCase`, `currentBatch`, `awaited`, `sigterm` | per poll: its await, its messages, the position of the handler's loop; the store; the two module variables; per SIGTERM what its handler read from `currentBatch` and where it is |
| `due`, `started`, `stopped`, `inFlight`, `span`, `waits`, `held` | the interval; the flags; per rule its promise and the window it queries; per signal the shutdown and the promises it awaits |
| `announced`, `excused`, `overlapped`, `cut`, `seen`, `missed`, `late` | history, in no guard |

| Actions | Code |
|---|---|
| `Log`, `Reinit`, `ReinitAndLog`, `ReinitLogFlush`, `Flush`, `LogAndFlush`, `PostSettles`, `Ends` | the destination's write, `reinitLogger`, `flushLoki` up to its await, the end of a push, the end of the process; all but the last two are parts of the actions below |
| `Connect`, `ReadBody`, `BodyFails`, `Schedule`, `ReplyEarly`, `Answer` | the HTTP listener, the limiter, the replies without an await, the answer |
| `Publish`, `Published`, `PublishFails`, `WindowCloses`, `BootInline`, `RunInline`, `InlineEnds` | the alert route; a failing send may have been stored all the same |
| `DenyRollback`, `StartRollback`, `RollbackEnds`, `RollbackTimesOut`, `ReplyToClick` | the rollback action |
| `Poll`, `Receive`, `ReceiveNothing`, `ReceiveFails`, `Boot`, `BootFails`, `Skip`, `SkipInvalid`, `Claim`, `Announce`, `AnnounceFails`, `Handled`, `BatchFailed`, `StartDelete`, `Delete`, `PollEnds`, `Reappears` | a poll of the worker from the interval to its resolution; the visibility timeout |
| `Start`, `Fire`, `Pass`, `QueryFails`, `QueryReturns`, `Executed` | the runner: first tick, later ticks, time, a rule's run |
| `WebhookSigterm`, `ServerClosed`, `WebhookExit`, `WorkerSigterm`, `Drained`, `WorkerExit`, `AwaitRejects`, `Restart`, `Shutdown`, `Stopped`, `RunnerExit` | the three shutdowns, each split at its awaits |

The first batch of a process builds the use case (`Boot`) and empties the log
buffer as it does; a boot that fails is tried again by the next batch. A
worker's poll logs a body it cannot use (`SkipInvalid`), a failure and an event;
its progress lines are left out, as they differ from these in nothing the buffer
can tell. Each SIGTERM runs the worker's handler again, with what `currentBatch`
holds by then. The webhook's handler awaits the server's `close` event, which a
second signal neither hastens nor delays, so one signal is enough there.

### Runs

| Run | Question | Result |
|---|---|---|
| `self_hosted` | Is every log line in one place (`LinesAccountedFor`); does a 200 mean queued, under resent ids, truncation and lost replies (`AcceptedIsQueued`); is the operator told the truth (`RollbackToldTruly`); does SIGTERM answer open requests (`RequestsDrain`) and drain rules (`RunnerDrains`); is a deleted message announced (`DeletedWasAnnounced`); is a handler cut off only if polls overlapped (`CutOnlyWhenOverlapped`); are log windows contiguous (`NoGapBetweenWindows`); does a process told to stop end (`SigtermEndsProcess`)? | all hold |
| `worker_sigterm` | "drains on SIGTERM" (header of `worker-server.ts`) | refuted |

What these properties do not say is in their definitions, and the hazards they
leave uncovered say so in their notes:

- `DeletedWasAnnounced` has two excuses (`excused`), both of which the code has:
  a poll skips a cluster whose claim another poll holds and deletes its message
  while the holder may still fail, and a claim that died with its process shadows
  the redelivery. It catches a delete that was not earned, not these losses.
- `NoGapBetweenWindows` leaves out what a runner gives up: a failed query or a tick
  skipped while the rule lagged (`missed`), a timer that fired late (`late`). It is
  about the arithmetic of the windows; those gaps pass.
- `LinesAccountedFor` counts as accounted for what an overflow evicts and what
  `reinitLogger` drops (`past`).
- `AcceptedIsQueued` is satisfied by another request's message under the same id.
- `RollbackToldTruly` is about one request: a handler that completes after its
  timeout is in `raced`, and a second click is another request.
- `RequestsDrain` speaks of a process that exits and `SigtermEndsProcess` takes a
  crash for an end, so a client that leaves in mid-body, which ends the webhook
  with every other request, violates neither.

### Bounds

Two requests for one slot of the limiter, among sixteen kinds of request (each
reply of the handler, two payloads under one id) and three environments (FIFO,
standard, none); two polls over one restart with two messages, one of them
unparseable, and one SIGTERM for each start (two in `worker_sigterm`; the theorems
hold for any number); two rules, `Interval` 2, `Jitter` 1 and `Horizon` 6, hence up to
three ticks with late ones among them; a buffer of two lines, so that it
overflows. `LOKI_URL` is set: without it the buffer is never written. The claim
of a cluster does not expire and the store answers; `IncidentPipeline` has both.
The state space has 630,739 states.

### Fairness

`SelfHostedFairSpec`: weak fairness of each process's steps, and of the pushes:
Node runs every callback that is due, every request to another service has a
timeout in the code or in its SDK, and a client that has connected sends its body
or leaves (Node's `requestTimeout`). Nothing is owed by signals, new connections,
ticks, the rollback handler (it races a timer) or the inline pipeline (nobody
awaits it). Weak fairness of the process's steps taken together is enough for
`SigtermEndsProcess`, as those steps only run out when the process has ended.

### Proofs

`SelfHostedProofs` proves every safety property of `self_hosted`, for all
constants that satisfy the modules' assumptions. TLC evaluates these on the
instance: what a request may carry (`InputsAssumption`); bounds, and names that
do not coincide (`BufferAssumption`, `WebhookAssumption`, `WorkerAssumption`,
`RunnerAssumption`); and that the buffer knows each process's lines and flushers
(`WebhookLogging`, `WorkerLogging`, `RunnerLogging`).

- The buffer: `BufferInv` strengthens `LinesAccountedFor` by "no line is
  in the buffer twice"; without it the line an overflow evicts could be counted as
  lost and still be buffered. One lemma per buffer operation, for whoever
  performs it, on the condition that the line is new and the flusher awaits no
  other push.
- The processes owe the buffer those two conditions. `WebhookLogs`, `WorkerLogs`
  and `RunnerLogs` say at which await which lines were written and when a
  flusher has no push.
- The webhook (`WebhookInv`): `RequestFacts` keeps at each await what
  the checks before it established; `QueueOrigins` says that every message
  stems from a request with its id and payload and that SQS remembers only ids it
  took, which makes `AcceptedIsQueued` survive a deduplicated send;
  `RollbackFacts` that a failure told while the handler runs was the timer's;
  `Closing` that the last flush starts after the last answer.
- The worker (`WorkerInv`): `ClaimsHeld` (a live claim belongs to the poll
  at work on the message, or has its excuse), `BehindIsSettled` (what a poll's
  loop has passed was announced or is excused) and `LoneIsKept` (a poll that none
  overlapped is the one `currentBatch`, and each run of the SIGTERM handler still
  under way, refers to).
- The runner (`RunnerInv`): after a shutdown no tick starts a rule, so each shutdown holds all
  that is busy; a tick's window begins where the interval said, and what lies
  between is in `late`.

`SelfHostedInv` puts these together: the process that runs keeps its invariant,
the variables of the others stay at their initial values, which satisfy their
properties. TLC found it invariant on the instance of `self_hosted` as well. Only
model-checked: `SigtermEndsProcess` (liveness) and the refutation.

## Not modelled

- Metrics, message layout, prompts, and the redaction of values inside a field: no
  control depends on them.
- Trace queries, whose failures are counted and never fatal, and what the
  OpenSearch indexer writes: it succeeds or fails.
- The clocks of the DynamoDB adapter's clients: the store answers by one clock. No
  document bounds their skew, so nothing could be stated of it.
- The split of a CSV line into cells and a row's extra labels: no decision looks
  at them.
- `ingest-config.schema.ts` and the mappers of the runners: a runner is given a set
  of rules, and a query returns alerts or none. Of the ingest SQS path the mapper
  is kept as far as it may reject a message.
- Notifications sent twice: a failing escalation after a successful primary send
  repeats the primary one, and a message that partly fails can be repeated after
  its claim expired. No document bounds notifications per alert; both are listed
  as hazards.
- A label that is no number ("350ms") becomes null in the queued message, which the
  worker's schema then rejects, so that the message is skipped and deleted after
  its sender got a 200. `AlertSources` has the conversion and `IncidentStages` skips
  the body; the loss is a hazard of the list.
- The subscriber's optional indexer (`tryIndex`), which only logs and which the
  runtime does not use.
- Code with no caller in the deployed paths: `publish()` of the SQS adapter,
  `RoutingNotifier.sendWithActions`. The CLI scaffolder, examples, docs site and Helm chart have no run-time part in the
  alert pipeline.
