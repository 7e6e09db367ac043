-------------------------- MODULE IncidentPipeline --------------------------
(***************************************************************************)
(* The asynchronous half of Junando: the SQS alert queue, the worker       *)
(* Lambda (packages/worker/src/handler.ts), ProcessIncidentUseCase and the *)
(* deduplication store it claims fingerprints in.                          *)
(*                                                                         *)
(* One step is the code between two awaits whose effects other runs can    *)
(* see.  Time is two families of countdowns that Tick decrements together: *)
(* hidden[m], what is left of message m's visibility timeout, and ttl[f],  *)
(* what is left of the dedup claim on f (0: no live claim).                *)
(***************************************************************************)
EXTENDS Integers, FiniteSets

CONSTANTS
  Workers,        \* concurrent Lambda execution environments
  Messages,       \* queue messages the webhook published
  Fingerprints,   \* cluster fingerprints: sha(service | type | endpoint)
  Groups,         \* FIFO message groups (Alertmanager group keys)
  Group,          \* Group[m]: MessageGroupId of m
  Clusters,       \* Clusters[m]: fingerprints buildClusters finds in m
  Parseable,      \* messages whose body passes the worker's parser
  Suppressed,     \* <<m, f>>: a pre-LLM rule suppresses cluster f of m
  MaxEscalations, \* bound on pre- and on post-LLM escalate channels
  BatchSize,      \* event source mapping batchSize
  Visibility,     \* visibility timeout of the queue, in ticks
  TTL,            \* dedupTtlSeconds, in ticks
  MaxReceive,     \* maxReceiveCount of the redrive policy
  Faults,         \* the faults this instance admits, a subset of FaultNames
  None            \* no message, no fingerprint

FaultNames == {"boot", "store", "reply", "reset", "delete", "kill"}

ASSUME PipelineAssumption ==
  /\ Group \in [Messages -> Groups]
  /\ Clusters \in [Messages -> SUBSET Fingerprints]
  /\ Parseable \subseteq Messages
  /\ Suppressed \subseteq Messages \X Fingerprints
  /\ MaxEscalations \in Nat /\ BatchSize \in Nat \ {0}
  /\ Visibility \in Nat \ {0} /\ TTL \in Nat \ {0} /\ MaxReceive \in Nat \ {0}
  /\ Faults \subseteq FaultNames

ASSUME NamesAssumption ==
  Workers \intersect {"free", "settled", "orphan"} = {}

VARIABLES
  mstate,    \* where each message is
  hidden,    \* ticks until the message is visible again
  receives,  \* ApproximateReceiveCount
  ahead,     \* messages of its group that were queued when a message arrived
  ttl,       \* ticks the dedup claim on a fingerprint still lives
  stage,     \* what each worker's run awaits
  batch,     \* messages of the event the run was invoked with
  left,      \* records of the event the handler's loop has not reached
  cur,       \* the record being processed
  todo,      \* clusters of cur that execute's loop has not reached
  fp,        \* the cluster being processed
  togo,      \* notifier.send calls still to make for fp
  \* History variables: they appear in no guard.
  holder,    \* who owns the claim on f: a worker, or how its owner left it
  orphaned,  \* fingerprints a run ever left claimed without settling them
  settled    \* <<m, f>>: f was announced or silenced after m arrived

queueVars == <<mstate, hidden, receives, ahead>>
runVars   == <<stage, batch, left, cur, todo, fp, togo>>
ghostVars == <<holder, orphaned, settled>>
vars      == <<queueVars, ttl, runVars, ghostVars>>

Busy == {"rules", "notify", "release"}
Work == [m \in Messages |-> IF m \in Parseable THEN Clusters[m] ELSE {}]

Init ==
  /\ mstate = [m \in Messages |-> "unsent"]
  /\ hidden = [m \in Messages |-> 0]
  /\ receives = [m \in Messages |-> 0]
  /\ ahead = [m \in Messages |-> {}]
  /\ ttl = [f \in Fingerprints |-> 0]
  /\ stage = [w \in Workers |-> "idle"]
  /\ batch = [w \in Workers |-> {}]
  /\ left = [w \in Workers |-> {}]
  /\ cur = [w \in Workers |-> None]
  /\ todo = [w \in Workers |-> {}]
  /\ fp = [w \in Workers |-> None]
  /\ togo = [w \in Workers |-> 0]
  /\ holder = [f \in Fingerprints |-> "free"]
  /\ orphaned = {}
  /\ settled = {}

-----------------------------------------------------------------------------
(* The queue: SQS FIFO as the stack configures it.                         *)

(* Lambda A enqueues the alerts of one webhook call, behind its group.     *)
Publish(m) ==
  /\ mstate[m] = "unsent"
  /\ mstate' = [mstate EXCEPT ![m] = "queued"]
  /\ ahead' = [ahead EXCEPT ![m] = {n \in Messages : Group[n] = Group[m] /\ mstate[n] = "queued"}]
  /\ UNCHANGED <<hidden, receives, ttl, runVars, ghostVars>>

Held(m) == \E w \in Workers : m \in batch[w]

Invisible(m) == mstate[m] = "queued" /\ (hidden[m] > 0 \/ Held(m))

(* A group with a message in flight, or waiting for its retry, delivers    *)
(* nothing more.                                                           *)
Deliverable(m) ==
  /\ mstate[m] = "queued" /\ ~Invisible(m)
  /\ \A n \in Messages : Group[n] = Group[m] => ~Invisible(n)

(* FIFO: what arrived before m in its group has gone, or comes along in B. *)
InTurn(m, B) == \A n \in ahead[m] : mstate[n] = "queued" => n \in B

Receive(w, B) ==
  /\ stage[w] = "idle"
  /\ B # {} /\ Cardinality(B) <= BatchSize
  /\ \A m \in B : Deliverable(m) /\ InTurn(m, B) /\ receives[m] < MaxReceive
  /\ hidden' = [m \in Messages |-> IF m \in B THEN Visibility ELSE hidden[m]]
  /\ receives' = [m \in Messages |-> IF m \in B THEN receives[m] + 1 ELSE receives[m]]
  /\ stage' = [stage EXCEPT ![w] = "boot"]
  /\ batch' = [batch EXCEPT ![w] = B]
  /\ left' = [left EXCEPT ![w] = B]
  /\ UNCHANGED <<mstate, ahead, ttl, cur, todo, fp, togo, ghostVars>>

(* Mutant: the comparison is off by one, so no message is ever parked.     *)
RedriveOffByOne(m) ==
  /\ Deliverable(m) /\ InTurn(m, {}) /\ receives[m] > MaxReceive
  /\ mstate' = [mstate EXCEPT ![m] = "dlq"]
  /\ UNCHANGED <<hidden, receives, ahead, ttl, runVars, ghostVars>>

(* The redrive policy: the receive after the last allowed one parks it.    *)
Redrive(m) ==
  /\ Deliverable(m) /\ InTurn(m, {}) /\ receives[m] = MaxReceive
  /\ mstate' = [mstate EXCEPT ![m] = "dlq"]
  /\ UNCHANGED <<hidden, receives, ahead, ttl, runVars, ghostVars>>

Countdown(n) == IF n = 0 THEN 0 ELSE n - 1

(* Mutant: the Lambda timeout exceeds the visibility timeout.              *)
TickPastDeadline ==
  /\ \/ \E m \in Messages : hidden[m] > 0
     \/ \E f \in Fingerprints : ttl[f] > 0
  /\ hidden' = [m \in Messages |-> Countdown(hidden[m])]
  /\ ttl' = [f \in Fingerprints |-> Countdown(ttl[f])]
  /\ holder' = [f \in Fingerprints |-> IF ttl[f] <= 1 THEN "free" ELSE holder[f]]
  /\ UNCHANGED <<mstate, receives, ahead, runVars, orphaned, settled>>

(* The Lambda timeout equals the visibility timeout, so time cannot pass   *)
(* the moment at which a running invocation would be cut off.              *)
Tick ==
  /\ \/ \E m \in Messages : hidden[m] > 0
     \/ \E f \in Fingerprints : ttl[f] > 0
  /\ \A w \in Workers : \A m \in batch[w] : hidden[m] > 0
  /\ hidden' = [m \in Messages |-> Countdown(hidden[m])]
  /\ ttl' = [f \in Fingerprints |-> Countdown(ttl[f])]
  /\ holder' = [f \in Fingerprints |-> IF ttl[f] <= 1 THEN "free" ELSE holder[f]]
  /\ UNCHANGED <<mstate, receives, ahead, runVars, orphaned, settled>>

-----------------------------------------------------------------------------
(* The handler: one run per event.                                         *)

(* The invocation is over, by return, throw or kill.                       *)
EndRun(w) ==
  /\ stage' = [stage EXCEPT ![w] = "idle"]
  /\ batch' = [batch EXCEPT ![w] = {}]
  /\ left' = [left EXCEPT ![w] = {}]
  /\ cur' = [cur EXCEPT ![w] = None]
  /\ todo' = [todo EXCEPT ![w] = {}]
  /\ fp' = [fp EXCEPT ![w] = None]
  /\ togo' = [togo EXCEPT ![w] = 0]

Boot(w) ==
  /\ stage[w] = "boot"
  /\ stage' = [stage EXCEPT ![w] = "next"]
  /\ UNCHANGED <<queueVars, ttl, batch, left, cur, todo, fp, togo, ghostVars>>

(* getUseCase() throws: no record is looked at.                            *)
BootFails(w) ==
  /\ "boot" \in Faults
  /\ stage[w] = "boot"
  /\ EndRun(w)
  /\ UNCHANGED <<queueVars, ttl, ghostVars>>

(* The loop takes the next record, in the order of its group, and parses   *)
(* it; a body the parser refuses is logged and skipped, which leaves it to *)
(* be deleted with the batch.                                              *)
StartRecord(w) ==
  /\ stage[w] = "next" /\ todo[w] = {}
  /\ \E m \in left[w] :
       /\ ahead[m] \intersect left[w] = {}
       /\ left' = [left EXCEPT ![w] = @ \ {m}]
       /\ cur' = [cur EXCEPT ![w] = m]
       /\ todo' = [todo EXCEPT ![w] = Work[m]]
  /\ UNCHANGED <<queueVars, ttl, stage, batch, fp, togo, ghostVars>>

(* The handler returns: the event source mapping deletes the whole batch.  *)
Return(w) ==
  /\ stage[w] = "next" /\ todo[w] = {} /\ left[w] = {}
  /\ mstate' = [m \in Messages |-> IF m \in batch[w] THEN "deleted" ELSE mstate[m]]
  /\ EndRun(w)
  /\ UNCHANGED <<hidden, receives, ahead, ttl, ghostVars>>

(* The delete call is lost: the batch will be delivered again.             *)
DeleteFails(w) ==
  /\ "delete" \in Faults
  /\ stage[w] = "next" /\ todo[w] = {} /\ left[w] = {}
  /\ EndRun(w)
  /\ UNCHANGED <<queueVars, ttl, ghostVars>>

-----------------------------------------------------------------------------
(* The use case: one cluster at a time.                                    *)

(* Messages already sent that ask about f.                                 *)
Asking(f) == {m \in Messages : mstate[m] # "unsent" /\ f \in Work[m]}

Proceed(w, f) ==
  /\ todo' = [todo EXCEPT ![w] = @ \ {f}]
  /\ fp' = [fp EXCEPT ![w] = f]
  /\ stage' = [stage EXCEPT ![w] = "rules"]
  /\ UNCHANGED <<queueVars, batch, left, cur, togo, orphaned, settled>>

Skip(w, f) ==
  /\ todo' = [todo EXCEPT ![w] = @ \ {f}]
  /\ UNCHANGED <<queueVars, stage, batch, left, cur, fp, togo>>

AtCluster(w, f) == stage[w] = "next" /\ f \in todo[w]

(* Mutant: SET without NX.                                                 *)
ClaimAlways(w, f) ==
  /\ AtCluster(w, f)
  /\ ttl' = [ttl EXCEPT ![f] = TTL]
  /\ holder' = [holder EXCEPT ![f] = w]
  /\ Proceed(w, f)

(* Mutant: the store is handed the TTL in milliseconds.                    *)
ClaimInMilliseconds(w, f) ==
  /\ AtCluster(w, f) /\ ttl[f] = 0
  /\ ttl' = [ttl EXCEPT ![f] = 1000 * TTL]
  /\ holder' = [holder EXCEPT ![f] = w]
  /\ Proceed(w, f)

(* isNew wins: SET NX EX, or the conditional PutItem, wrote the claim.     *)
Claim(w, f) ==
  /\ AtCluster(w, f) /\ ttl[f] = 0
  /\ ttl' = [ttl EXCEPT ![f] = TTL]
  /\ holder' = [holder EXCEPT ![f] = w]
  /\ Proceed(w, f)

(* isNew loses: a live claim on f makes the cluster a duplicate.           *)
Duplicate(w, f) ==
  /\ AtCluster(w, f) /\ ttl[f] > 0
  /\ settled' = IF holder[f] = "settled" THEN settled \union {<<cur[w], f>>} ELSE settled
  /\ Skip(w, f)
  /\ UNCHANGED <<ttl, holder, orphaned>>

(* The store is unreachable: isNew answers true and nothing is claimed.    *)
FailOpen(w, f) ==
  /\ "store" \in Faults
  /\ AtCluster(w, f)
  /\ Proceed(w, f)
  /\ UNCHANGED <<ttl, holder>>

(* The claim is written, its reply is lost, and the client library's own   *)
(* resend finds the claim it wrote itself: the only claimant is told that  *)
(* its cluster is a duplicate.                                             *)
LostReply(w, f) ==
  /\ "reply" \in Faults
  /\ AtCluster(w, f) /\ ttl[f] = 0
  /\ ttl' = [ttl EXCEPT ![f] = TTL]
  /\ holder' = [holder EXCEPT ![f] = "orphan"]
  /\ orphaned' = orphaned \union {f}
  /\ Skip(w, f)
  /\ UNCHANGED settled

(* The cluster in hand is dealt with: its claim stays, settled.            *)
SettleCluster(w) ==
  /\ settled' = settled \union {<<m, fp[w]>> : m \in Asking(fp[w])}
  /\ holder' = [holder EXCEPT ![fp[w]] = IF @ = w THEN "settled" ELSE @]
  /\ stage' = [stage EXCEPT ![w] = "next"]
  /\ fp' = [fp EXCEPT ![w] = None]
  /\ togo' = [togo EXCEPT ![w] = 0]
  /\ UNCHANGED <<queueVars, ttl, batch, left, cur, todo, orphaned>>

(* A pre-LLM rule suppresses the cluster: no traces, LLM or notification.  *)
Suppress(w) ==
  /\ stage[w] = "rules" /\ <<cur[w], fp[w]>> \in Suppressed
  /\ SettleCluster(w)

(* Traces, triage, LLM and post-LLM rules.  None of their failures stops   *)
(* the cluster; they decide how many sends follow.  Post-LLM escalations   *)
(* exist only when the LLM returned an analysis (not on error, degraded    *)
(* reply or low triage severity).                                          *)
Analyze(w) ==
  /\ stage[w] = "rules" /\ <<cur[w], fp[w]>> \notin Suppressed
  /\ \E analysed \in BOOLEAN, pre, post \in 0..MaxEscalations :
       /\ post > 0 => analysed
       /\ togo' = [togo EXCEPT ![w] = 1 + pre + post]
  /\ stage' = [stage EXCEPT ![w] = "notify"]
  /\ UNCHANGED <<queueVars, ttl, batch, left, cur, todo, fp, ghostVars>>

(* One of the sends succeeds and another channel remains.                  *)
Send(w) ==
  /\ stage[w] = "notify" /\ togo[w] > 1
  /\ togo' = [togo EXCEPT ![w] = @ - 1]
  /\ UNCHANGED <<queueVars, ttl, stage, batch, left, cur, todo, fp, ghostVars>>

(* The last send succeeds.                                                 *)
SendLast(w) ==
  /\ stage[w] = "notify" /\ togo[w] = 1
  /\ SettleCluster(w)

(* Mutant: a notifier failure is caught and the loop goes on.              *)
SendFailsSwallowed(w) ==
  /\ stage[w] = "notify"
  /\ stage' = [stage EXCEPT ![w] = "next"]
  /\ fp' = [fp EXCEPT ![w] = None]
  /\ togo' = [togo EXCEPT ![w] = 0]
  /\ UNCHANGED <<queueVars, ttl, batch, left, cur, todo, ghostVars>>

(* Any send fails, escalations included: the claim must be given back.     *)
SendFails(w) ==
  /\ stage[w] = "notify"
  /\ stage' = [stage EXCEPT ![w] = "release"]
  /\ UNCHANGED <<queueVars, ttl, batch, left, cur, todo, fp, togo, ghostVars>>

(* Mutant: execute rethrows without releasing the claim.                   *)
ReleaseForgotten(w) ==
  /\ stage[w] = "release"
  /\ EndRun(w)
  /\ UNCHANGED <<queueVars, ttl, ghostVars>>

(* Mutant: the claim is released and the handler does not rethrow.         *)
ReleaseAndAck(w) ==
  /\ stage[w] = "release"
  /\ ttl' = [ttl EXCEPT ![fp[w]] = 0]
  /\ holder' = [holder EXCEPT ![fp[w]] = "free"]
  /\ mstate' = [m \in Messages |-> IF m \in batch[w] THEN "deleted" ELSE mstate[m]]
  /\ EndRun(w)
  /\ UNCHANGED <<hidden, receives, ahead, orphaned, settled>>

(* releaseDedupClaim deletes the key, whoever owns it, and execute         *)
(* rethrows: the whole batch stays in the queue until it is visible again. *)
Release(w) ==
  /\ stage[w] = "release"
  /\ ttl' = [ttl EXCEPT ![fp[w]] = 0]
  /\ holder' = [holder EXCEPT ![fp[w]] = "free"]
  /\ EndRun(w)
  /\ UNCHANGED <<queueVars, orphaned, settled>>

OwnedBy(w) == {f \in Fingerprints : holder[f] = w}

(* The run ends and its unsettled claims stay behind.                      *)
Abandon(w) ==
  /\ holder' = [f \in Fingerprints |-> IF f \in OwnedBy(w) THEN "orphan" ELSE holder[f]]
  /\ orphaned' = orphaned \union OwnedBy(w)
  /\ EndRun(w)
  /\ UNCHANGED <<queueVars, ttl, settled>>

(* reset throws: the failure is logged, the original error rethrown.       *)
ReleaseFails(w) == "reset" \in Faults /\ stage[w] = "release" /\ Abandon(w)

(* The execution environment dies or the Lambda timeout cuts the run off.  *)
Kill(w) == "kill" \in Faults /\ stage[w] # "idle" /\ Abandon(w)

-----------------------------------------------------------------------------
IsNew(w) == \E f \in todo[w] : Claim(w, f) \/ Duplicate(w, f) \/ FailOpen(w, f) \/ LostReply(w, f)

(* Every way a run goes on by itself.                                      *)
RunStep(w) ==
  \/ Boot(w) \/ BootFails(w) \/ StartRecord(w) \/ IsNew(w) \/ Suppress(w) \/ Analyze(w)
  \/ Send(w) \/ SendLast(w) \/ SendFails(w) \/ Release(w) \/ ReleaseFails(w)
  \/ Return(w) \/ DeleteFails(w)

Next ==
  \/ \E m \in Messages : Publish(m) \/ Redrive(m)
  \/ \E w \in Workers, B \in SUBSET Messages : Receive(w, B)
  \/ \E w \in Workers : RunStep(w) \/ Kill(w)
  \/ Tick

Spec == Init /\ [][Next]_vars

(* A run that may step does; the poller keeps asking the queue, and time   *)
(* passes.                                                                 *)
Fairness ==
  /\ \A w \in Workers : WF_vars(RunStep(w))
  /\ \A m \in Messages :
       /\ SF_vars(\E w \in Workers, B \in SUBSET Messages : m \in B /\ Receive(w, B))
       /\ SF_vars(Redrive(m))
  /\ WF_vars(Tick)

FairSpec == Spec /\ Fairness
-----------------------------------------------------------------------------
(* Properties.                                                             *)

(* Every variable stays in its type: the state the worker, the queue and   *)
(* the dedup store can be in.                                              *)
TypeOK ==
  /\ mstate \in [Messages -> {"unsent", "queued", "deleted", "dlq"}]
  /\ hidden \in [Messages -> 0..Visibility]
  /\ receives \in [Messages -> 0..MaxReceive]
  /\ ahead \in [Messages -> SUBSET Messages]
  /\ ttl \in [Fingerprints -> 0..TTL]
  /\ stage \in [Workers -> {"idle", "boot", "next"} \union Busy]
  /\ batch \in [Workers -> SUBSET Messages]
  /\ left \in [Workers -> SUBSET Messages]
  /\ cur \in [Workers -> Messages \union {None}]
  /\ todo \in [Workers -> SUBSET Fingerprints]
  /\ fp \in [Workers -> Fingerprints \union {None}]
  /\ togo \in [Workers -> 0..(1 + 2 * MaxEscalations)]
  /\ holder \in [Fingerprints -> Workers \union {"free", "settled", "orphan"}]
  /\ orphaned \subseteq Fingerprints
  /\ settled \subseteq Messages \X Fingerprints

(* Run w has dealt with cluster f of m, or with m altogether.              *)
Passed(w, m, f) ==
  /\ m \in batch[w] /\ m \notin left[w]
  /\ ~(cur[w] = m /\ (f \in todo[w] \/ (stage[w] \in Busy /\ fp[w] = f)))

(* m still obliges the pipeline to deal with f: it is parked for an        *)
(* operator, or queued and no run has passed f in it.                      *)
Owed(m, f) ==
  \/ mstate[m] = "dlq"
  \/ mstate[m] = "queued" /\ \A w \in Workers : ~Passed(w, m, f)

Responsible(f) == \E m \in Messages : f \in Work[m] /\ Owed(m, f)

(* No alert disappears silently, whatever runs overlap, fail and retry:    *)
(* once a message is in the queue, each of its fingerprints is settled     *)
(* after it arrived, or still owed by some message, or some run left a     *)
(* claim on it behind (killed, reset failed, reply lost).  The releases in *)
(* execute's catch block and the rethrow to SQS exist for this.            *)
NoSilentLoss ==
  \A f \in Fingerprints : \A m \in Asking(f) :
    <<m, f>> \in settled \/ f \in orphaned \/ Responsible(f)

(* With the store reachable and claims that outlive the visibility timeout *)
(* (300 s against 180 s in the stack), no two runs work on one fingerprint *)
(* at a time, and none works on it while a settled claim on it lives: a    *)
(* retried or repeated message does not notify again inside the window.    *)
Guarded == "store" \notin Faults /\ Visibility < TTL
ExclusiveProcessing ==
  Guarded =>
    \A w \in Workers : stage[w] \in Busy =>
      /\ holder[fp[w]] # "settled"
      /\ \A v \in Workers \ {w} : stage[v] \in Busy => fp[v] # fp[w]

(* reset deletes the key without checking whose it is: under the same      *)
(* conditions it only ever deletes the claim of the run that calls it.     *)
ReleaseOwnClaim ==
  [][Guarded => \A w \in Workers : Release(w) => holder[fp[w]] = w /\ ttl[fp[w]] > 0]_vars

(* The pipeline implements IncidentDelivery when no fault strands a claim. *)
Delivery == INSTANCE IncidentDelivery WITH
  accepted <- {m \in Messages : mstate[m] # "unsent"},
  acked    <- {m \in Messages : mstate[m] = "deleted"},
  parked   <- {m \in Messages : mstate[m] = "dlq"}
DeliverySpec == Delivery!Spec

(* Every message leaves the queue, acknowledged or to the DLQ: no run,     *)
(* retry or group keeps one in flight for ever.                            *)
QueueDrains == \A m \in Messages : mstate[m] = "queued" ~> mstate[m] \in {"deleted", "dlq"}

(* RUNBOOK.md Scenario 6 and PRD.md say of a run cut off by the timeout,   *)
(* or of a failing dedup store, that its alerts come back until they are   *)
(* handled or reach the DLQ: a message is deleted only when each cluster   *)
(* is settled or still owed.                                               *)
NothingDropped ==
  \A f \in Fingerprints : \A m \in Asking(f) :
    mstate[m] = "deleted" => <<m, f>> \in settled \/ Responsible(f)

(* The comment on releaseDedupClaim: two runs for the same fingerprint are *)
(* never in flight simultaneously.                                         *)
OneRunPerFingerprint ==
  \A v, w \in Workers : v # w =>
    \A m \in batch[v], n \in batch[w] : Work[m] \intersect Work[n] = {}
=============================================================================
