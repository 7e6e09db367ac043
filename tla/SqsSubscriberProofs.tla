------------------------- MODULE SqsSubscriberProofs -------------------------
(***************************************************************************)
(* The safety properties of SqsSubscriber for every value of its constants, *)
(* and IngestRuntime's inheritance of them.                                 *)
(***************************************************************************)
EXTENDS IngestRuntime, FiniteSetTheorems, TLAPS

-----------------------------------------------------------------------------
(* Types and the in-flight bound. *)

\* What the bound is inductive with: types, and that the pool is finite.
PoolInv ==
    /\ TypeOK
    /\ IsFiniteSet(inFlight)
    /\ InFlightBound
    /\ WaitsOnlyWhenFull

\* A pool that keeps its size leaves between 0 and MaxInFlight slots free.
LEMMA FreeRange ==
    ASSUME PoolInv
    PROVE  /\ Cardinality(inFlight) \in Nat
           /\ ask \in Nat /\ MaxInFlight \in Nat
           /\ Free \in 0..MaxInFlight
           /\ Cardinality(inFlight) + ask <= MaxInFlight
<1>1. Cardinality(inFlight) \in Nat
  BY FS_CardinalityType DEF PoolInv
<1>2. ask \in Nat /\ MaxInFlight \in Nat /\ ask \in 0..MaxInFlight
  BY SubscriberAssumption DEF PoolInv, TypeOK
<1>3. Cardinality(inFlight) + ask <= MaxInFlight
  BY DEF PoolInv, InFlightBound
<1> QED
  BY <1>1, <1>2, <1>3 DEF Free

\* A receive asks for at least one message and for no more than there is room for.
LEMMA WantedRange ==
    ASSUME PoolInv, Free > 0
    PROVE  Wanted \in 1..Free
<1>1. Free \in Nat /\ BatchSize \in 1..10
  BY FreeRange, SubscriberAssumption
<1> QED
  BY <1>1 DEF Wanted, Smaller, SqsBatchLimit

\* A turn of the loop asks for what fits, and waits only when nothing does.
LEMMA RunLoopPool ==
    ASSUME PoolInv, NEW stop \in BOOLEAN, RunLoop(stop), inFlight' = inFlight
    PROVE  /\ loop' \in {"ended", "waiting", "polling"}
           /\ ask' \in 0..MaxInFlight
           /\ InFlightBound'
           /\ WaitsOnlyWhenFull'
<1>1. Free \in 0..MaxInFlight /\ Cardinality(inFlight) \in Nat /\ MaxInFlight \in Nat
      /\ Free = MaxInFlight - Cardinality(inFlight)
  BY FreeRange DEF Free
<1>2. Cardinality(inFlight') = Cardinality(inFlight)
  OBVIOUS
<1>3. CASE stop /\ loop' = "ended" /\ ask' = 0
  BY <1>1, <1>2, <1>3 DEF InFlightBound, WaitsOnlyWhenFull
<1>4. CASE Free <= 0 /\ loop' = "waiting" /\ ask' = 0
  BY <1>1, <1>2, <1>4 DEF InFlightBound, WaitsOnlyWhenFull
<1>5. CASE Free > 0 /\ loop' = "polling" /\ ask' = Wanted
  <2>1. Wanted \in 1..Free
    BY <1>5, WantedRange
  <2> QED
    BY <1>1, <1>2, <1>5, <2>1 DEF InFlightBound, WaitsOnlyWhenFull
<1> QED
  BY <1>3, <1>4, <1>5 DEF RunLoop

\* The batch of one response: its deliveries, and no more of them than messages.
LEMMA BatchFacts ==
    ASSUME TypeOK, NEW B \in SUBSET Messages, Receivable(B)
    PROVE  LET batch == {[m |-> m, r |-> receives[m] + 1] : m \in B}
           IN  /\ batch \subseteq Deliveries
               /\ IsFiniteSet(batch)
               /\ Cardinality(batch) \in Nat
               /\ Cardinality(batch) <= ask
<1> DEFINE batch == {[m |-> m, r |-> receives[m] + 1] : m \in B}
<1>1. IsFiniteSet(B)
  BY FS_Subset, SubscriberAssumption
<1>2. IsFiniteSet(batch) /\ Cardinality(batch) <= Cardinality(B)
  <2> DEFINE f == [m \in B |-> [m |-> m, r |-> receives[m] + 1]]
  <2>1. f \in Surjection(B, batch)
    BY DEF Surjection
  <2> QED
    BY <1>1, <2>1, FS_Surjection
<1>3. Cardinality(B) \in Nat /\ Cardinality(batch) \in Nat
  BY <1>1, <1>2, FS_CardinalityType
<1>4. batch \subseteq Deliveries
  <2> SUFFICES ASSUME NEW m \in B
               PROVE  [m |-> m, r |-> receives[m] + 1] \in Deliveries
    OBVIOUS
  <2>1. receives[m] \in 0..MaxReceives /\ receives[m] < MaxReceives /\ MaxReceives \in Nat
    BY SubscriberAssumption DEF TypeOK, Receivable
  <2> QED
    BY <2>1 DEF Deliveries
<1>5. Cardinality(B) <= ask /\ ask \in Int
  BY SubscriberAssumption DEF Receivable, TypeOK
<1> QED
  BY <1>2, <1>3, <1>4, <1>5

\* The initial pool is empty.
LEMMA PoolInit == Init => PoolInv
<1> SUFFICES ASSUME Init PROVE PoolInv
  OBVIOUS
<1>1. IsFiniteSet({}) /\ Cardinality({}) = 0
  BY FS_EmptySet
<1>2. MaxInFlight \in Nat /\ MaxReceives \in Nat /\ MaxStarts \in Nat
  BY SubscriberAssumption
<1>3. TypeOK
  <2>1. inFlight = {} /\ batches = {} /\ ok = {} /\ processed = {}
    BY DEF Init
  <2>2. /\ mstate \in [Messages -> {"unsent", "queued", "hidden", "deleted"}]
        /\ receives \in [Messages -> 0..MaxReceives]
    BY <1>2 DEF Init
  <2>3. stopping \in BOOLEAN
    BY DEF Init
  <2>4. /\ loop \in {"off", "turn", "waiting", "polling", "ended"}
        /\ ask \in 0..MaxInFlight /\ starts \in 0..MaxStarts
    BY <1>2 DEF Init
  <2>5. /\ stops \in [Stoppers -> {"idle", "loop", "batches", "tasks", "done"}]
        /\ waitB \in [Stoppers -> SUBSET SUBSET Deliveries]
        /\ waitT \in [Stoppers -> SUBSET Deliveries]
    BY DEF Init
  <2> QED
    BY <2>1, <2>2, <2>3, <2>4, <2>5 DEF TypeOK
<1> QED
  BY <1>1, <1>2, <1>3 DEF Init, PoolInv, InFlightBound, WaitsOnlyWhenFull

\* A response that arrives fills what the receive had reserved.
LEMMA ReceivePool ==
    ASSUME PoolInv, NEW B \in SUBSET Messages, Receive(B)
    PROVE  PoolInv'
<1> DEFINE batch == {[m |-> m, r |-> receives[m] + 1] : m \in B}
<1> USE SubscriberAssumption
<1>1. /\ batch \subseteq Deliveries /\ IsFiniteSet(batch)
      /\ Cardinality(batch) \in Nat /\ Cardinality(batch) <= ask
  BY BatchFacts DEF Receive, PoolInv
<1>2. /\ inFlight' = inFlight \cup batch /\ batches' = batches \cup {batch}
      /\ loop' = "turn" /\ ask' = 0
      /\ UNCHANGED <<ok, processed, stopping, starts, stops, waitB, waitT>>
  BY DEF Receive, PollReturns, stoppers
<1>3. IsFiniteSet(inFlight) /\ Cardinality(inFlight) \in Nat
  BY FS_CardinalityType DEF PoolInv
<1>4. /\ IsFiniteSet(inFlight')
      /\ Cardinality(inFlight')
            = Cardinality(inFlight) + Cardinality(batch) - Cardinality(inFlight \cap batch)
  BY <1>1, <1>2, <1>3, FS_Union
<1>5. Cardinality(inFlight \cap batch) \in Nat
  BY <1>3, FS_Subset, FS_CardinalityType
<1>6. Cardinality(inFlight') + ask' <= MaxInFlight
  <2>1. Cardinality(inFlight) + ask <= MaxInFlight /\ ask \in Nat
    BY FreeRange
  <2>2. Cardinality(inFlight') \in Nat
    BY <1>4, FS_CardinalityType
  <2> HIDE DEF batch
  <2> QED
    BY <1>1, <1>2, <1>3, <1>4, <1>5, <2>1, <2>2
<1>7. TypeOK'
  <2>1. mstate' \in [Messages -> {"unsent", "queued", "hidden", "deleted"}]
    BY DEF Receive, Hide, PoolInv, TypeOK
  <2>2. receives' \in [Messages -> 0..MaxReceives]
    <3> SUFFICES ASSUME NEW m \in Messages
                 PROVE  receives[m] + (IF m \in B THEN 1 ELSE 0) \in 0..MaxReceives
      BY DEF Receive, Hide
    <3>1. receives[m] \in 0..MaxReceives /\ (m \in B => receives[m] < MaxReceives)
      BY DEF Receive, Receivable, PoolInv, TypeOK
    <3> QED
      BY <3>1
  <2> HIDE DEF batch
  <2>3. inFlight' \subseteq Deliveries /\ batches' \subseteq SUBSET Deliveries
    BY <1>1, <1>2 DEF PoolInv, TypeOK
  <2> QED
    BY <1>2, <2>1, <2>2, <2>3 DEF PoolInv, TypeOK
<1> QED
  BY <1>2, <1>4, <1>6, <1>7 DEF PoolInv, InFlightBound, WaitsOnlyWhenFull

\* A task that settles frees its slot and wakes the loop.
LEMMA SettlePool ==
    ASSUME PoolInv, NEW d, NEW good, Settle(d, good)
    PROVE  PoolInv'
<1> USE SubscriberAssumption
<1>1. /\ d \in inFlight /\ inFlight' = inFlight \ {d} /\ loop' = Woken(loop)
      /\ UNCHANGED <<mstate, receives, batches, stopping, ask, starts, stops, waitB, waitT>>
      /\ ok' \subseteq ok \cup {d} /\ processed' \subseteq processed \cup {d.m}
  BY DEF Settle, queue, stoppers
<1>2. IsFiniteSet(inFlight) /\ Cardinality(inFlight) \in Nat
  BY FS_CardinalityType DEF PoolInv
<1>3. IsFiniteSet(inFlight') /\ Cardinality(inFlight') = Cardinality(inFlight) - 1
  BY <1>1, <1>2, FS_RemoveElement
<1>4. InFlightBound'
  <2>1. Cardinality(inFlight) + ask <= MaxInFlight /\ ask \in Nat /\ MaxInFlight \in Nat
    BY FreeRange
  <2> QED
    BY <1>1, <1>2, <1>3, <2>1 DEF InFlightBound
<1>5. WaitsOnlyWhenFull'
  BY <1>1 DEF Woken, WaitsOnlyWhenFull, PoolInv, TypeOK
<1>6. TypeOK'
  <2>1. d \in Deliveries /\ d.m \in Messages
    BY <1>1 DEF PoolInv, TypeOK, Deliveries
  <2> QED
    BY <1>1, <2>1 DEF Woken, PoolInv, TypeOK
<1> QED
  BY <1>3, <1>4, <1>5, <1>6 DEF PoolInv

\* Every other step leaves the pool as it is.
LEMMA QuietPool ==
    ASSUME PoolInv, TypeOK', inFlight' = inFlight,
           ask' \in {0, ask}, loop' = "waiting" => loop = "waiting"
    PROVE  PoolInv'
<1>1. /\ Cardinality(inFlight) \in Nat /\ ask \in Nat /\ MaxInFlight \in Nat
      /\ Cardinality(inFlight) + ask <= MaxInFlight
  BY FreeRange
<1>2. InFlightBound'
  BY <1>1 DEF InFlightBound
<1>3. WaitsOnlyWhenFull'
  BY DEF PoolInv, WaitsOnlyWhenFull
<1> QED
  BY <1>2, <1>3 DEF PoolInv

\* A queue step and a lost response move messages, nothing of the subscriber.
LEMMA QueuePool ==
    ASSUME PoolInv,
           \/ QueueStep
           \/ \E B \in SUBSET Messages : ReceiveLost(B)
    PROVE  PoolInv'
<1>1. CASE QueueStep
  <2>1. TypeOK'
    BY <1>1 DEF QueueStep, Publish, Expire, work, control, stoppers, PoolInv, TypeOK
  <2> QED
    BY <1>1, <2>1, QuietPool DEF QueueStep, Publish, Expire, work, control
<1>2. ASSUME NEW B \in SUBSET Messages, ReceiveLost(B) PROVE PoolInv'
  <2>1. receives' \in [Messages -> 0..MaxReceives]
    <3> SUFFICES ASSUME NEW m \in Messages
                 PROVE  receives[m] + (IF m \in B THEN 1 ELSE 0) \in 0..MaxReceives
      BY <1>2 DEF ReceiveLost, Hide
    <3>1. /\ receives[m] \in 0..MaxReceives /\ (m \in B => receives[m] < MaxReceives)
          /\ MaxReceives \in Nat
      BY <1>2, SubscriberAssumption DEF ReceiveLost, Receivable, PoolInv, TypeOK
    <3> QED
      BY <3>1
  <2>2. /\ mstate' \in [Messages -> {"unsent", "queued", "hidden", "deleted"}]
        /\ loop' = "turn" /\ ask' = 0
        /\ UNCHANGED <<inFlight, batches, ok, processed, stopping, starts,
                       stops, waitB, waitT>>
    BY <1>2 DEF ReceiveLost, Hide, PollReturns, work, stoppers, PoolInv, TypeOK
  <2>3. TypeOK'
    BY <2>1, <2>2, SubscriberAssumption DEF PoolInv, TypeOK
  <2> QED
    BY <2>2, <2>3, QuietPool
<1> QED
  BY <1>1, <1>2

\* The loop's own steps: RunLoop keeps the bound, the ends of a poll free what
\* it had reserved.
LEMMA LoopPool ==
    ASSUME PoolInv, Start \/ Turn \/ ReceiveNothing \/ LoopEnded
    PROVE  PoolInv'
<1> USE SubscriberAssumption
<1>1. ASSUME NEW stop \in BOOLEAN, RunLoop(stop), stopping' \in BOOLEAN,
             starts' \in 0..MaxStarts, UNCHANGED <<queue, work, stoppers>>
      PROVE  PoolInv'
  <2>1. UNCHANGED <<mstate, receives, inFlight, batches, ok, processed, stops, waitB, waitT>>
    BY <1>1 DEF queue, work, stoppers
  <2>2. /\ loop' \in {"ended", "waiting", "polling"} /\ ask' \in 0..MaxInFlight
        /\ InFlightBound' /\ WaitsOnlyWhenFull'
    BY <1>1, <2>1, RunLoopPool
  <2>3. TypeOK'
    BY <1>1, <2>1, <2>2 DEF PoolInv, TypeOK
  <2> QED
    BY <2>1, <2>2, <2>3 DEF PoolInv
<1>2. CASE Start
  <2>1. starts' \in 0..MaxStarts
    BY <1>2 DEF Start, PoolInv, TypeOK
  <2> QED
    BY <1>1, <1>2, <2>1 DEF Start
<1>3. CASE Turn
  <2>1. stopping \in BOOLEAN /\ starts \in 0..MaxStarts
    BY DEF PoolInv, TypeOK
  <2> QED
    BY <1>1, <1>3, <2>1 DEF Turn
<1>4. CASE ReceiveNothing
  <2>1. /\ loop' = "turn" /\ ask' = 0 /\ inFlight' = inFlight
        /\ UNCHANGED <<mstate, receives, batches, ok, processed, stopping, starts,
                       stops, waitB, waitT>>
    BY <1>4 DEF ReceiveNothing, PollReturns, queue, work, stoppers
  <2>2. TypeOK'
    BY <2>1 DEF PoolInv, TypeOK
  <2> QED
    BY <2>1, <2>2, QuietPool
<1>5. CASE LoopEnded
  <2>1. /\ loop' = "off" /\ ask' = ask
        /\ UNCHANGED <<mstate, receives, inFlight, batches, ok, processed, stopping,
                       starts, waitT>>
    BY <1>5 DEF LoopEnded, queue, work
  <2>2. /\ stops' \in [Stoppers -> {"idle", "loop", "batches", "tasks", "done"}]
        /\ waitB' \in [Stoppers -> SUBSET SUBSET Deliveries]
    BY <1>5 DEF LoopEnded, PoolInv, TypeOK
  <2>3. TypeOK'
    BY <2>1, <2>2 DEF PoolInv, TypeOK
  <2> QED
    BY <2>1, <2>3, QuietPool
<1> QED
  BY <1>2, <1>3, <1>4, <1>5

\* A finished batch and a stop() leave the pool and wake the loop at most.
LEMMA RestPool ==
    ASSUME PoolInv, FinishSome \/ StopStep
    PROVE  PoolInv'
<1>1. ASSUME NEW b \in batches, NEW D \in SUBSET Messages, FinishBatch(b, D)
      PROVE  PoolInv'
  <2>1. /\ loop' = Woken(loop) /\ ask' = ask /\ inFlight' = inFlight
        /\ batches' \subseteq batches /\ ok' \subseteq ok
        /\ mstate' \in [Messages -> {"unsent", "queued", "hidden", "deleted"}]
        /\ UNCHANGED <<receives, processed, stopping, starts, stops, waitB, waitT>>
    BY <1>1 DEF FinishBatch, stoppers, PoolInv, TypeOK
  <2>2. TypeOK'
    BY <2>1 DEF Woken, PoolInv, TypeOK
  <2> QED
    BY <2>1, <2>2, QuietPool DEF Woken
<1>2. ASSUME NEW s \in Stoppers, Stop(s)
      PROVE  PoolInv'
  <2>1. /\ stopping' = TRUE /\ loop' = Woken(loop) /\ ask' = ask /\ inFlight' = inFlight
        /\ UNCHANGED <<mstate, receives, batches, ok, processed, starts, waitT>>
    BY <1>2 DEF Stop, queue, work
  <2>2. /\ stops' \in [Stoppers -> {"idle", "loop", "batches", "tasks", "done"}]
        /\ waitB' \in [Stoppers -> SUBSET SUBSET Deliveries]
    BY <1>2 DEF Stop, PoolInv, TypeOK
  <2>3. TypeOK'
    BY <2>1, <2>2 DEF Woken, PoolInv, TypeOK
  <2> QED
    BY <2>1, <2>3, QuietPool DEF Woken
<1>3. ASSUME NEW s \in Stoppers, StopBatches(s) \/ StopTasks(s)
      PROVE  PoolInv'
  <2>1. TypeOK'
    BY <1>3 DEF StopBatches, StopTasks, queue, work, control, PoolInv, TypeOK
  <2> QED
    BY <1>3, <2>1, QuietPool DEF StopBatches, StopTasks, work, control
<1> QED
  BY <1>1, <1>2, <1>3 DEF FinishSome, StopStep

\* Every step of the subscriber keeps the pool's invariant.
LEMMA PoolStep == PoolInv /\ [Next]_vars => PoolInv'
<1> SUFFICES ASSUME PoolInv, [Next]_vars PROVE PoolInv'
  OBVIOUS
<1>1. CASE QueueStep \/ LoseSome
  BY <1>1, QueuePool DEF LoseSome
<1>2. CASE Start \/ Turn \/ ReceiveNothing \/ LoopEnded
  BY <1>2, LoopPool
<1>3. CASE ReceiveSome
  BY <1>3, ReceivePool DEF ReceiveSome
<1>4. CASE \E d \in inFlight : SettleSome(d)
  BY <1>4, SettlePool DEF SettleSome
<1>5. CASE FinishSome \/ StopStep
  BY <1>5, RestPool
<1>6. CASE UNCHANGED vars
  BY <1>6 DEF vars, queue, work, control, stoppers, PoolInv, TypeOK, InFlightBound,
              WaitsOnlyWhenFull
<1> QED
  BY <1>1, <1>2, <1>3, <1>4, <1>5, <1>6 DEF Next, LoopStep

\* The pool's invariant holds throughout.
LEMMA PoolInvariance == Spec => []PoolInv
<1> QED
  BY PoolInit, PoolStep, PTL DEF Spec

\* Every variable keeps its type (the fields of SqsSubscriber, lines 54-59).
THEOREM SubscriberTypes == Spec => []TypeOK
<1>1. PoolInv => TypeOK
  BY DEF PoolInv
<1> QED
  BY <1>1, PoolInvariance, PTL

\* The tasks in flight and those a receive may add stay within maxInFlight
\* (runLoop, lines 105-111).
THEOREM PoolIsBounded == Spec => []InFlightBound
<1>1. PoolInv => InFlightBound
  BY DEF PoolInv
<1> QED
  BY <1>1, PoolInvariance, PTL

\* No wakeup of the loop is lost: it waits only while the pool is full
\* (waitForCapacity and releaseCapacityWaiters, lines 236-251).
THEOREM NoLostWakeup == Spec => []WaitsOnlyWhenFull
<1>1. PoolInv => WaitsOnlyWhenFull
  BY DEF PoolInv
<1> QED
  BY <1>1, PoolInvariance, PTL

-----------------------------------------------------------------------------
(* Deletion. *)

\* A success waiting for its batch is a success in the history; so is what was
\* deleted.
AckInv ==
    /\ \A d \in ok : d.m \in processed
    /\ DeletedWereProcessed

\* Each step keeps it: only FinishBatch deletes, and only what ok records.
LEMMA AckStep == PoolInv /\ AckInv /\ [Next]_vars => AckInv'
<1> SUFFICES ASSUME PoolInv, AckInv, [Next]_vars PROVE AckInv'
  OBVIOUS
<1> USE DEF AckInv, DeletedWereProcessed
<1>1. ASSUME UNCHANGED <<ok, processed>>,
             \A m \in Messages : mstate'[m] = "deleted" => mstate[m] = "deleted"
      PROVE  AckInv'
  BY <1>1
<1>2. CASE QueueStep
  BY <1>1, <1>2 DEF QueueStep, Publish, Expire, work, PoolInv, TypeOK
<1>3. ASSUME NEW B \in SUBSET Messages, Receive(B) \/ ReceiveLost(B)
      PROVE  AckInv'
  BY <1>1, <1>3 DEF Receive, ReceiveLost, Hide, work
<1>4. CASE Start \/ Turn \/ ReceiveNothing \/ LoopEnded
  BY <1>1, <1>4 DEF Start, Turn, ReceiveNothing, LoopEnded, queue, work
<1>5. ASSUME NEW d \in inFlight, NEW good \in BOOLEAN, Settle(d, good)
      PROVE  AckInv'
  <2>1. \A e \in ok' : e.m \in processed'
    BY <1>5 DEF Settle
  <2> QED
    BY <1>5, <2>1 DEF Settle, queue
<1>6. ASSUME NEW b \in batches, NEW D \in SUBSET Messages, FinishBatch(b, D)
      PROVE  AckInv'
  <2>1. ok' \subseteq ok /\ processed' = processed
    BY <1>6 DEF FinishBatch
  <2>2. \A m \in D : m \in processed
    BY <1>6 DEF FinishBatch
  <2>3. \A m \in Messages : mstate'[m] = "deleted" => m \in D \/ mstate[m] = "deleted"
    BY <1>6 DEF FinishBatch
  <2> QED
    BY <2>1, <2>2, <2>3
<1>7. CASE StopStep
  BY <1>1, <1>7 DEF StopStep, Stop, StopBatches, StopTasks, queue, work
<1>8. CASE UNCHANGED vars
  BY <1>1, <1>8 DEF vars, queue, work
<1> QED
  BY <1>2, <1>3, <1>4, <1>5, <1>6, <1>7, <1>8
     DEF Next, LoopStep, ReceiveSome, LoseSome, SettleSome, FinishSome

\* Only processed messages are deleted (processBatch, lines 161-188).
THEOREM DeletesAreEarned == Spec => []DeletedWereProcessed
<1>1. Init => AckInv
  BY DEF Init, AckInv, DeletedWereProcessed
<1>2. AckInv => DeletedWereProcessed
  BY DEF AckInv
<1> QED
  BY <1>1, <1>2, AckStep, PoolInvariance, PTL DEF Spec

-----------------------------------------------------------------------------
(* Draining. *)

\* Some stop() call stands at this await.
SomeStopAt(at) == \E s \in Stoppers : stops[s] = at

\* Tasks belong to pending batches; a flag that is set with a loop still there
\* was set by a stop() that awaits that loop; and what is pending without a
\* loop is what some stop() waits for.
DrainInv ==
    /\ inFlight \subseteq UNION batches
    /\ loop = "ended" => stopping
    /\ stopping /\ loop # "off" => SomeStopAt("loop")
    /\ loop = "off" /\ batches # {} =>
         \E s \in Stoppers : stops[s] = "batches" /\ batches \subseteq waitB[s]

\* It says more than that a finished stop() has drained.
LEMMA DrainImplies == DrainInv => StopDrains
  BY DEF DrainInv, StopDrains

\* The loop's end hands its pending batches to each stop() that awaited it.
LEMMA LoopEndedDrains ==
    ASSUME PoolInv, DrainInv, LoopEnded
    PROVE  DrainInv'
<1>1. /\ loop' = "off" /\ loop = "ended" /\ inFlight' = inFlight /\ batches' = batches
  BY DEF LoopEnded, work
<1>2. PICK s \in Stoppers : stops[s] = "loop"
  BY <1>1 DEF DrainInv, SomeStopAt
<1>3. stops'[s] = "batches" /\ waitB'[s] = batches
  BY <1>2 DEF LoopEnded
<1> QED
  BY <1>1, <1>3 DEF DrainInv

\* A call of stop() awaits the loop if there is one.
LEMMA StopDrainsStep ==
    ASSUME PoolInv, DrainInv, NEW s \in Stoppers, Stop(s)
    PROVE  DrainInv'
<1>1. /\ stopping' = TRUE /\ loop' = Woken(loop) /\ inFlight' = inFlight
      /\ batches' = batches /\ stops[s] = "idle"
  BY DEF Stop, work
<1>2. CASE loop = "off"
  <2>1. loop' = "off" /\ stops'[s] = "batches" /\ waitB'[s] = batches
    BY <1>1, <1>2 DEF Stop, Woken, PoolInv, TypeOK
  <2> QED
    BY <1>1, <2>1 DEF DrainInv
<1>3. CASE loop # "off"
  <2>1. loop' # "off" /\ stops'[s] = "loop" /\ (loop' = "ended" => loop = "ended")
    BY <1>1, <1>3 DEF Stop, Woken, PoolInv, TypeOK
  <2> QED
    BY <1>1, <2>1 DEF DrainInv, SomeStopAt
<1> QED
  BY <1>2, <1>3

\* stop() passes an await only when what it waits for is over.
LEMMA StopAwaitsStep ==
    ASSUME PoolInv, DrainInv, NEW s \in Stoppers, StopBatches(s) \/ StopTasks(s)
    PROVE  DrainInv'
<1>1. UNCHANGED <<loop, stopping, inFlight, batches>>
  BY DEF StopBatches, StopTasks, work, control
<1>2. \A t \in Stoppers : t # s => stops'[t] = stops[t] /\ waitB'[t] = waitB[t]
  BY DEF StopBatches, StopTasks, PoolInv, TypeOK
<1>3. stops[s] # "loop" /\ (stops[s] = "batches" => waitB[s] \cap batches = {})
  BY DEF StopBatches, StopTasks
<1>4. SomeStopAt("loop") => SomeStopAt("loop")'
  BY <1>2, <1>3 DEF SomeStopAt
<1>5. ASSUME loop = "off", batches # {}
      PROVE  \E t \in Stoppers : stops'[t] = "batches" /\ batches \subseteq waitB'[t]
  <2>1. PICK t \in Stoppers : stops[t] = "batches" /\ batches \subseteq waitB[t]
    BY <1>5 DEF DrainInv
  <2>2. t # s
    BY <1>3, <1>5, <2>1
  <2> QED
    BY <1>2, <2>1, <2>2
<1> QED
  BY <1>1, <1>4, <1>5 DEF DrainInv

\* A turn of the loop ends it only when the flag is set.
LEMMA RunLoopDrains ==
    ASSUME DrainInv, NEW stop \in BOOLEAN, RunLoop(stop), stopping' = stop,
           stop => SomeStopAt("loop"), UNCHANGED <<work, stoppers>>
    PROVE  DrainInv'
<1>1. UNCHANGED <<inFlight, batches, stops, waitB>>
  BY DEF work, stoppers
<1>2. loop' # "off" /\ (loop' = "ended" => stop)
  BY DEF RunLoop
<1>3. stop => SomeStopAt("loop")'
  BY <1>1 DEF SomeStopAt
<1> QED
  BY <1>1, <1>2, <1>3 DEF DrainInv

\* Each step keeps the draining invariant.
LEMMA DrainStep == PoolInv /\ DrainInv /\ [Next]_vars => DrainInv'
<1> SUFFICES ASSUME PoolInv, DrainInv, [Next]_vars PROVE DrainInv'
  OBVIOUS
<1>1. ASSUME UNCHANGED <<inFlight, batches, stops, waitB, stopping>>,
             loop' = loop \/ (loop' = "turn" /\ loop # "off")
      PROVE  DrainInv'
  BY <1>1 DEF DrainInv, SomeStopAt
<1>2. CASE QueueStep
  <2>1. UNCHANGED <<inFlight, batches, stops, waitB, stopping, loop>>
    BY <1>2 DEF QueueStep, Publish, Expire, work, control, stoppers
  <2> QED
    BY <1>1, <2>1
<1>3. ASSUME NEW B \in SUBSET Messages, ReceiveLost(B) PROVE DrainInv'
  BY <1>1, <1>3 DEF ReceiveLost, Receivable, PollReturns, work, stoppers
<1>4. CASE ReceiveNothing
  BY <1>1, <1>4 DEF ReceiveNothing, PollReturns, work, stoppers
<1>5. ASSUME NEW B \in SUBSET Messages, Receive(B) PROVE DrainInv'
  <2>1. PICK batch : inFlight' = inFlight \cup batch /\ batches' = batches \cup {batch}
    BY <1>5 DEF Receive
  <2>2. loop = "polling" /\ loop' = "turn" /\ UNCHANGED <<stops, waitB, stopping>>
    BY <1>5 DEF Receive, Receivable, PollReturns, stoppers
  <2>3. inFlight' \subseteq UNION batches'
    BY <2>1 DEF DrainInv
  <2> QED
    BY <2>2, <2>3 DEF DrainInv, SomeStopAt
<1>6. CASE Start
  BY <1>6, RunLoopDrains DEF Start
<1>7. CASE Turn
  <2>1. stopping \in BOOLEAN /\ (stopping => SomeStopAt("loop"))
    BY <1>7 DEF Turn, DrainInv, PoolInv, TypeOK
  <2> QED
    BY <1>7, <2>1, RunLoopDrains DEF Turn
<1>8. CASE LoopEnded
  BY <1>8, LoopEndedDrains
<1>9. ASSUME NEW d \in inFlight, NEW good \in BOOLEAN, Settle(d, good) PROVE DrainInv'
  <2>1. /\ inFlight' \subseteq inFlight /\ loop' = Woken(loop)
        /\ UNCHANGED <<batches, stops, waitB, stopping>>
    BY <1>9 DEF Settle, stoppers
  <2> QED
    BY <2>1 DEF Woken, DrainInv, SomeStopAt
<1>10. ASSUME NEW b \in batches, NEW D \in SUBSET Messages, FinishBatch(b, D)
       PROVE  DrainInv'
  <2>1. /\ batches' = batches \ {b} /\ b \cap inFlight = {} /\ loop' = Woken(loop)
        /\ UNCHANGED <<inFlight, stops, waitB, stopping>>
    BY <1>10 DEF FinishBatch, stoppers
  <2>2. inFlight' \subseteq UNION batches'
    BY <2>1 DEF DrainInv
  <2> QED
    BY <2>1, <2>2 DEF Woken, DrainInv, SomeStopAt
<1>11. CASE StopStep
  BY <1>11, StopDrainsStep, StopAwaitsStep DEF StopStep
<1>12. CASE UNCHANGED vars
  <2>1. UNCHANGED <<inFlight, batches, stops, waitB, stopping, loop>>
    BY <1>12 DEF vars, work, control, stoppers
  <2> QED
    BY <1>1, <2>1
<1> QED
  BY <1>2, <1>3, <1>4, <1>5, <1>6, <1>7, <1>8, <1>9, <1>10, <1>11, <1>12
     DEF Next, LoopStep, ReceiveSome, LoseSome, SettleSome, FinishSome

\* When the last stop() has returned nothing runs any more (stop, lines 89-101).
THEOREM StopIsDrained == Spec => []StopDrains
<1>1. Init => DrainInv
  BY DEF Init, DrainInv
<1> QED
  BY <1>1, DrainStep, DrainImplies, PoolInvariance, PTL DEF Spec

-----------------------------------------------------------------------------
(* The runtime. *)

\* Whatever processMessage does, the runtime is a subscriber: each task it ends
\* is a task that settles, so the theorems above hold of it.
THEOREM RuntimeIsSubscriber == RuntimeSpec => Spec
<1>1. RuntimeInit => Init
  BY DEF RuntimeInit
<1>2. ASSUME NEW d \in inFlight, Process(d) PROVE SettleSome(d)
  BY <1>2 DEF Process, DecodeFails, IndexDocument, ProcessAlerts, SettleSome
<1>3. [RuntimeNext]_runtimeVars => [Next]_vars
  <2>1. SubscriberStep => Next
    BY DEF SubscriberStep, Next
  <2>2. UNCHANGED runtimeVars => UNCHANGED vars
    BY DEF runtimeVars
  <2> QED
    BY <1>2, <2>1, <2>2 DEF RuntimeNext, Next
<1> QED
  BY <1>1, <1>3, PTL DEF RuntimeSpec, Spec

\* A message of the indexing path is deleted only after its document was
\* written (buildIndexerProcessor, lines 134-144).
THEOREM IndexingIsSafe == RuntimeSpec => []IndexedBeforeDeleted
<1> DEFINE Inv == path = "indexing" => processed \subseteq handled
<1>1. RuntimeInit => Inv
  BY DEF RuntimeInit, Init
<1>2. Inv /\ [RuntimeNext]_runtimeVars => Inv'
  <2> SUFFICES ASSUME Inv, [RuntimeNext]_runtimeVars PROVE Inv'
    OBVIOUS
  <2>1. CASE SubscriberStep
    <3>1. processed' = processed
      BY <2>1 DEF SubscriberStep, QueueStep, LoopStep, FinishSome, StopStep, ReceiveSome,
                  LoseSome, Publish, Expire, Start, Turn, Receive, ReceiveLost,
                  ReceiveNothing, LoopEnded, FinishBatch, Stop, StopBatches, StopTasks, work
    <3> QED
      BY <2>1, <3>1 DEF SubscriberStep
  <2>2. ASSUME NEW d \in inFlight, Process(d) PROVE Inv'
    BY <2>2 DEF Process, DecodeFails, IndexDocument, ProcessAlerts, Settle
  <2>3. CASE UNCHANGED runtimeVars
    BY <2>3 DEF runtimeVars, vars, work
  <2> QED
    BY <2>1, <2>2, <2>3 DEF RuntimeNext
<1>3. Inv /\ DeletedWereProcessed => IndexedBeforeDeleted
  BY DEF DeletedWereProcessed, IndexedBeforeDeleted
<1> QED
  BY <1>1, <1>2, <1>3, RuntimeIsSubscriber, DeletesAreEarned, PTL DEF RuntimeSpec
=============================================================================
