---------------------------- MODULE SqsSubscriber ----------------------------
(***************************************************************************)
(* The pull side of the SQS ingest process                                 *)
(* (packages/ingest/src/polling/sqs-subscriber.ts): a loop that long-polls  *)
(* a standard queue, starts one task per message, bounds the tasks in       *)
(* flight, deletes a batch's successes after its slowest task, and stops.   *)
(*                                                                         *)
(* One JavaScript thread runs it, so an action is the code from one await   *)
(* to the next.  A delivery is a message with its receive number (its       *)
(* receipt handle); a batch is the set of deliveries of one response.       *)
(***************************************************************************)
EXTENDS Integers, FiniteSets

CONSTANTS
    Messages,    \* the messages producers may send
    Stoppers,    \* the callers of stop(): one per signal handler
    BatchSize,   \* config batchSize
    MaxInFlight, \* config maxInFlight
    MaxReceives, \* bound: deliveries of one message
    MaxStarts    \* bound: calls of start() that start a loop

ASSUME SubscriberAssumption ==
    /\ IsFiniteSet(Messages)
    /\ BatchSize \in 1..10
    /\ MaxInFlight \in Nat \ {0}
    /\ MaxReceives \in Nat
    /\ MaxStarts \in Nat

\* The most messages one ReceiveMessage may ask for.
SqsBatchLimit == 10

Deliveries == [m : Messages, r : 1..MaxReceives]

VARIABLES
    mstate,    \* "unsent", "queued", "hidden" (received, not yet visible again), "deleted"
    receives,  \* how often each message was received
    stopping,  \* the flag stop() sets and start() clears
    loop,      \* runLoop: "off" (loopPromise null), "turn" (about to test the
               \* flag), "waiting" (in capacityWaiters), "polling", "ended"
    ask,       \* MaxNumberOfMessages of the receive under way, 0 if none
    inFlight,  \* deliveries whose task has not settled
    batches,   \* pendingBatches
    ok,        \* deliveries of pending batches whose task succeeded
    stops,     \* each stop(): "idle", "loop", "batches", "tasks", "done"
    waitB,     \* the batches a stop() in "batches" waits for
    waitT,     \* the tasks a stop() in "tasks" waits for
    starts,    \* bound counter
    processed  \* history, in no guard: messages some task of which succeeded

queue == <<mstate, receives>>
work == <<inFlight, batches, ok, processed>>
control == <<stopping, loop, ask, starts>>
stoppers == <<stops, waitB, waitT>>
vars == <<queue, work, control, stoppers>>

Init ==
    /\ mstate = [m \in Messages |-> "unsent"]
    /\ receives = [m \in Messages |-> 0]
    /\ stopping = FALSE
    /\ loop = "off"
    /\ ask = 0
    /\ inFlight = {} /\ batches = {} /\ ok = {}
    /\ stops = [s \in Stoppers |-> "idle"]
    /\ waitB = [s \in Stoppers |-> {}]
    /\ waitT = [s \in Stoppers |-> {}]
    /\ starts = 0
    /\ processed = {}

-----------------------------------------------------------------------------
(* The queue. *)

Publish(m) ==
    /\ mstate[m] = "unsent"
    /\ mstate' = [mstate EXCEPT ![m] = "queued"]
    /\ UNCHANGED <<receives, work, control, stoppers>>

\* The visibility timeout lapses, whether or not a task still has the message.
Expire(m) ==
    /\ mstate[m] = "hidden"
    /\ mstate' = [mstate EXCEPT ![m] = "queued"]
    /\ UNCHANGED <<receives, work, control, stoppers>>

-----------------------------------------------------------------------------
(* The loop. *)

Free == MaxInFlight - Cardinality(inFlight)

Smaller(a, b) == IF a <= b THEN a ELSE b

\* Mutant: the free slots are not taken into account.
WantedBlindly == Smaller(BatchSize, SqsBatchLimit)

\* What the next receive asks for.
Wanted == Smaller(Smaller(BatchSize, Free), SqsBatchLimit)

\* Mutant: nobody releases the waiters.
WokenNever(l) == l

\* releaseCapacityWaiters: the loop is the only waiter there can be.
Woken(l) == IF l = "waiting" THEN "turn" ELSE l

\* Mutant: the loop does not test the flag.
RunLoopForever(stop) ==
    \/ /\ Free <= 0
       /\ loop' = "waiting" /\ ask' = 0
    \/ /\ Free > 0
       /\ loop' = "polling" /\ ask' = Wanted

\* One turn of the while loop, up to its next await.
RunLoop(stop) ==
    \/ /\ stop
       /\ loop' = "ended" /\ ask' = 0
    \/ /\ ~stop /\ Free <= 0
       /\ loop' = "waiting" /\ ask' = 0
    \/ /\ ~stop /\ Free > 0
       /\ loop' = "polling" /\ ask' = Wanted

\* start(): nothing while a loop promise is there, also that of a stop under way.
Start ==
    /\ loop = "off" /\ starts < MaxStarts
    /\ stopping' = FALSE
    /\ starts' = starts + 1
    /\ RunLoop(FALSE)
    /\ UNCHANGED <<queue, work, stoppers>>

Turn ==
    /\ loop = "turn"
    /\ RunLoop(stopping)
    /\ UNCHANGED <<queue, work, stoppers, stopping, starts>>

\* The messages one response may hold.
Receivable(B) ==
    /\ loop = "polling"
    /\ B # {} /\ Cardinality(B) <= ask
    /\ \A m \in B : mstate[m] = "queued" /\ receives[m] < MaxReceives

Hide(B) ==
    /\ mstate' = [m \in Messages |-> IF m \in B THEN "hidden" ELSE mstate[m]]
    /\ receives' = [m \in Messages |-> receives[m] + IF m \in B THEN 1 ELSE 0]

PollReturns == loop' = "turn" /\ ask' = 0

\* The response arrives: one task per message, and one batch that awaits them.
Receive(B) ==
    /\ Receivable(B)
    /\ Hide(B)
    /\ LET batch == {[m |-> m, r |-> receives[m] + 1] : m \in B}
       IN  /\ inFlight' = inFlight \cup batch
           /\ batches' = batches \cup {batch}
    /\ PollReturns
    /\ UNCHANGED <<ok, processed, stopping, starts, stoppers>>

\* The queue handed the messages out, but the request was aborted or failed.
ReceiveLost(B) ==
    /\ Receivable(B)
    /\ Hide(B)
    /\ PollReturns
    /\ UNCHANGED <<work, stopping, starts, stoppers>>

\* An empty response, an abort by stop(), or an error, which is only logged.
ReceiveNothing ==
    /\ loop = "polling"
    /\ PollReturns
    /\ UNCHANGED <<queue, work, stopping, starts, stoppers>>

-----------------------------------------------------------------------------
(* The tasks and the batches. *)

\* processSingleMessage settles, and trackProcess's finally runs.
Settle(d, good) ==
    /\ d \in inFlight
    /\ inFlight' = inFlight \ {d}
    /\ ok' = IF good THEN ok \cup {d} ELSE ok
    /\ processed' = IF good THEN processed \cup {d.m} ELSE processed
    /\ loop' = Woken(loop)
    /\ UNCHANGED <<queue, batches, stopping, ask, starts, stoppers>>

\* Mutant: the whole batch is deleted, failures included.
FinishBatchWhole(b, D) ==
    /\ b \in batches
    /\ b \cap inFlight = {}
    /\ D \subseteq {d.m : d \in b}
    /\ mstate' = [m \in Messages |-> IF m \in D THEN "deleted" ELSE mstate[m]]
    /\ batches' = batches \ {b}
    /\ ok' = ok \ b
    /\ loop' = Woken(loop)
    /\ UNCHANGED <<receives, inFlight, processed, stopping, ask, starts, stoppers>>

\* Every task of b has settled and the deletion of its successes has returned,
\* having removed the messages D: all of them, or fewer when the request or an
\* entry of it failed (the response's Failed entries are not read).
FinishBatch(b, D) ==
    /\ b \in batches
    /\ b \cap inFlight = {}
    /\ D \subseteq {d.m : d \in b \cap ok}
    /\ mstate' = [m \in Messages |-> IF m \in D THEN "deleted" ELSE mstate[m]]
    /\ batches' = batches \ {b}
    /\ ok' = ok \ b
    /\ loop' = Woken(loop)
    /\ UNCHANGED <<receives, inFlight, processed, stopping, ask, starts, stoppers>>

-----------------------------------------------------------------------------
(* stop(). *)

\* The flag, the abort (the poll then returns by one of the receive actions)
\* and the release; then the first await that has something to wait for.
Stop(s) ==
    /\ stops[s] = "idle"
    /\ stopping' = TRUE
    /\ loop' = Woken(loop)
    /\ IF loop = "off"
         THEN /\ stops' = [stops EXCEPT ![s] = "batches"]
              /\ waitB' = [waitB EXCEPT ![s] = batches]
         ELSE /\ stops' = [stops EXCEPT ![s] = "loop"]
              /\ UNCHANGED waitB
    /\ UNCHANGED <<queue, work, ask, starts, waitT>>

\* The loop promise resolves: each stop() that awaits it clears it and takes
\* the batches that are pending now.
LoopEnded ==
    /\ loop = "ended"
    /\ loop' = "off"
    /\ stops' = [s \in Stoppers |-> IF stops[s] = "loop" THEN "batches" ELSE stops[s]]
    /\ waitB' = [s \in Stoppers |-> IF stops[s] = "loop" THEN batches ELSE waitB[s]]
    /\ UNCHANGED <<queue, work, stopping, ask, starts, waitT>>

\* Mutant: stop() awaits the tasks but not the batches.
StopBatchesAtOnce(s) ==
    /\ stops[s] = "batches"
    /\ stops' = [stops EXCEPT ![s] = "tasks"]
    /\ waitB' = [waitB EXCEPT ![s] = {}]
    /\ waitT' = [waitT EXCEPT ![s] = inFlight]
    /\ UNCHANGED <<queue, work, control>>

StopBatches(s) ==
    /\ stops[s] = "batches"
    /\ waitB[s] \cap batches = {}
    /\ stops' = [stops EXCEPT ![s] = "tasks"]
    /\ waitB' = [waitB EXCEPT ![s] = {}]
    /\ waitT' = [waitT EXCEPT ![s] = inFlight]
    /\ UNCHANGED <<queue, work, control>>

StopTasks(s) ==
    /\ stops[s] = "tasks"
    /\ waitT[s] \cap inFlight = {}
    /\ stops' = [stops EXCEPT ![s] = "done"]
    /\ waitT' = [waitT EXCEPT ![s] = {}]
    /\ UNCHANGED <<queue, work, control, waitB>>

-----------------------------------------------------------------------------
ReceiveSome == \E B \in SUBSET Messages : Receive(B)
LoseSome == \E B \in SUBSET Messages : ReceiveLost(B)
SettleSome(d) == \E good \in BOOLEAN : Settle(d, good)
FinishSome == \E b \in batches, D \in SUBSET Messages : FinishBatch(b, D)

\* Everything but the end of a task, which is the business of processMessage.
QueueStep == \E m \in Messages : Publish(m) \/ Expire(m)
LoopStep == Start \/ Turn \/ ReceiveSome \/ LoseSome \/ ReceiveNothing \/ LoopEnded
StopStep == \E s \in Stoppers : Stop(s) \/ StopBatches(s) \/ StopTasks(s)

Next ==
    \/ QueueStep
    \/ LoopStep
    \/ \E d \in inFlight : SettleSome(d)
    \/ FinishSome
    \/ StopStep

Spec == Init /\ [][Next]_vars

\* A promise that is ready is run; a long poll and a task end (the code gives
\* neither processMessage nor the delete a timeout of its own: that they end is
\* assumed of their callees); visibility lapses; and a queue that is polled
\* again and again hands out each message it holds.
Fairness ==
    /\ WF_vars(Turn) /\ WF_vars(LoopEnded)
    /\ WF_vars(ReceiveSome \/ LoseSome \/ ReceiveNothing)
    /\ \A d \in Deliveries : WF_vars(SettleSome(d))
    /\ WF_vars(FinishSome)
    /\ \A s \in Stoppers : WF_vars(StopBatches(s)) /\ WF_vars(StopTasks(s))
    /\ \A m \in Messages :
         /\ WF_vars(Expire(m))
         /\ SF_vars(\E B \in SUBSET Messages : m \in B /\ (Receive(B) \/ ReceiveLost(B)))

FairSpec == Spec /\ Fairness

-----------------------------------------------------------------------------
(* Properties. *)

\* Every variable has its type.
TypeOK ==
    /\ mstate \in [Messages -> {"unsent", "queued", "hidden", "deleted"}]
    /\ receives \in [Messages -> 0..MaxReceives]
    /\ stopping \in BOOLEAN
    /\ loop \in {"off", "turn", "waiting", "polling", "ended"}
    /\ ask \in 0..MaxInFlight
    /\ inFlight \subseteq Deliveries
    /\ batches \subseteq SUBSET Deliveries
    /\ ok \subseteq Deliveries
    /\ stops \in [Stoppers -> {"idle", "loop", "batches", "tasks", "done"}]
    /\ waitB \in [Stoppers -> SUBSET SUBSET Deliveries]
    /\ waitT \in [Stoppers -> SUBSET Deliveries]
    /\ starts \in 0..MaxStarts
    /\ processed \subseteq Messages

\* The tasks in flight stay within maxInFlight, counting those the receive
\* under way may still add (runLoop reads the size before the await).
InFlightBound == Cardinality(inFlight) + ask <= MaxInFlight

\* The loop waits for capacity only while there is none: no wakeup is lost.
WaitsOnlyWhenFull == loop = "waiting" => Cardinality(inFlight) = MaxInFlight

\* Only messages some task of which succeeded are deleted, though successes
\* and failures share a batch and a message may be in several batches.
DeletedWereProcessed == \A m \in Messages : mstate[m] = "deleted" => m \in processed

\* When the loop is gone and no stop() is under way, nothing is left running:
\* stop() drains ("Drains in-flight work", scripts/ingest-server.ts).
StopDrains ==
    loop = "off" /\ (\A s \in Stoppers : stops[s] \in {"idle", "done"})
        => inFlight = {} /\ batches = {}

\* Each stop() resolves: the loop leaves whichever await it is at.
StopResolves == \A s \in Stoppers : stops[s] # "idle" ~> stops[s] = "done"

\* While the subscriber runs, each message of the queue is received.
Taken ==
    \A m \in Messages :
        (loop # "off" /\ mstate[m] = "queued" /\ receives[m] = 0)
            ~> (receives[m] > 0 \/ stopping)
=============================================================================
