---------------------- MODULE IncidentPipelineProofs ------------------------
(* Theorems about IncidentPipeline, for every number of workers, messages, *)
(* fingerprints and groups and every choice of timeouts and faults.        *)
EXTENDS IncidentPipeline, TLAPS

(* How the variables of one run hang together.                             *)
Shape ==
  /\ \A w \in Workers :
       /\ left[w] \subseteq batch[w]
       /\ \A m \in batch[w] : mstate[m] = "queued"
       /\ todo[w] # {} => /\ cur[w] \in batch[w] \ left[w]
                          /\ stage[w] \in {"next"} \union Busy
       /\ todo[w] # {} => todo[w] \subseteq Work[cur[w]]
       /\ stage[w] \in Busy => /\ cur[w] \in batch[w] \ left[w]
                               /\ fp[w] \in Work[cur[w]]
       /\ stage[w] = "idle" => batch[w] = {}
  /\ \A v, w \in Workers : v # w => batch[v] \intersect batch[w] = {}

(* What the state of a claim says about the runs.                          *)
ClaimStatus ==
  \A f \in Fingerprints :
    /\ ttl[f] > 0 => holder[f] # "free"
    /\ holder[f] = "orphan" => f \in orphaned
    /\ \A w \in Workers : holder[f] = w => stage[w] \in Busy /\ fp[w] = f

(* A settled claim was settled for somebody, and whoever asked about its   *)
(* fingerprint since is answered or still owed in its own right.           *)
SettledStands ==
  \A f \in Fingerprints : holder[f] = "settled" =>
    /\ \E m \in Asking(f) : <<m, f>> \in settled
    /\ \A m \in Asking(f) : <<m, f>> \in settled \/ f \in orphaned \/ Owed(m, f)

Inv == TypeOK /\ Shape /\ ClaimStatus /\ SettledStands /\ NoSilentLoss

(* A busy run owns its claim, and the claim outlives its batch's           *)
(* visibility timeout.                                                     *)
BusyOwnsClaim ==
  Guarded => \A w \in Workers : stage[w] \in Busy =>
    holder[fp[w]] = w /\ \A m \in batch[w] : hidden[m] < ttl[fp[w]]
-----------------------------------------------------------------------------
(* Type correctness and the shape of a run.                                *)

(* The clusters of a message are fingerprints.                             *)
LEMMA WorkType == Work \in [Messages -> SUBSET Fingerprints]
  BY PipelineAssumption DEF Work

(* The types and the shape hold at the start.                              *)
LEMMA InitTypeShape == Init => TypeOK /\ Shape
  BY PipelineAssumption DEF Init, TypeOK, Shape, Busy

(* Each action keeps the types.                                            *)
LEMMA TypeStep == TypeOK /\ Shape /\ [Next]_vars => TypeOK'
  <1> SUFFICES ASSUME TypeOK, Shape, [Next]_vars PROVE TypeOK'
    OBVIOUS
  <1> USE PipelineAssumption, WorkType DEF TypeOK, Busy
  \* What several actions do.
  <1>1. ASSUME NEW w \in Workers, SettleCluster(w) PROVE TypeOK'
    <2>1. {<<m, fp[w]>> : m \in Asking(fp[w])} \subseteq Messages \X Fingerprints
      BY DEF Asking
    <2>2. holder' \in [Fingerprints -> Workers \union {"free", "settled", "orphan"}]
      BY <1>1 DEF SettleCluster
    <2>3. settled' \subseteq Messages \X Fingerprints
      BY <1>1, <2>1 DEF SettleCluster
    <2>4. QED BY <1>1, <2>2, <2>3 DEF SettleCluster, queueVars
  <1>2. ASSUME NEW w \in Workers, Abandon(w) PROVE TypeOK'
    BY <1>2 DEF Abandon, OwnedBy, EndRun, queueVars
  \* The queue.
  <1>3. ASSUME NEW m \in Messages, Publish(m) PROVE TypeOK'
    BY <1>3 DEF Publish, runVars, ghostVars
  <1>4. ASSUME NEW m \in Messages, Redrive(m) PROVE TypeOK'
    BY <1>4 DEF Redrive, runVars, ghostVars
  <1>5. ASSUME NEW w \in Workers, NEW B \in SUBSET Messages, Receive(w, B) PROVE TypeOK'
    <2>1. hidden' \in [Messages -> 0..Visibility]
      BY <1>5 DEF Receive
    <2>2. receives' \in [Messages -> 0..MaxReceive]
      BY <1>5 DEF Receive
    <2>3. QED BY <1>5, <2>1, <2>2 DEF Receive, ghostVars
  <1>6. ASSUME Tick PROVE TypeOK'
    <2>1. \A n \in Nat : \A k \in 0..n : Countdown(k) \in 0..n
      BY DEF Countdown
    <2>2. hidden' \in [Messages -> 0..Visibility]
      BY <1>6, <2>1 DEF Tick
    <2>3. ttl' \in [Fingerprints -> 0..TTL]
      BY <1>6, <2>1 DEF Tick
    <2>4. holder' \in [Fingerprints -> Workers \union {"free", "settled", "orphan"}]
      BY <1>6 DEF Tick
    <2>5. QED BY <1>6, <2>2, <2>3, <2>4 DEF Tick, runVars
  \* The handler and the use case.
  <1>7. ASSUME NEW w \in Workers, Boot(w) PROVE TypeOK'
    BY <1>7 DEF Boot, queueVars, ghostVars
  <1>8. ASSUME NEW w \in Workers, BootFails(w) PROVE TypeOK'
    BY <1>8 DEF BootFails, EndRun, queueVars, ghostVars
  <1>9. ASSUME NEW w \in Workers, StartRecord(w) PROVE TypeOK'
    BY <1>9 DEF StartRecord, queueVars, ghostVars
  <1>10. ASSUME NEW w \in Workers, Return(w) PROVE TypeOK'
    BY <1>10 DEF Return, EndRun, ghostVars
  <1>11. ASSUME NEW w \in Workers, DeleteFails(w) PROVE TypeOK'
    BY <1>11 DEF DeleteFails, EndRun, queueVars, ghostVars
  <1>12. ASSUME NEW w \in Workers, NEW f \in todo[w], Claim(w, f) PROVE TypeOK'
    BY <1>12 DEF Claim, AtCluster, Proceed, queueVars
  <1>13. ASSUME NEW w \in Workers, NEW f \in todo[w], Duplicate(w, f) PROVE TypeOK'
    BY <1>13 DEF Duplicate, AtCluster, Skip, Shape, queueVars
  <1>14. ASSUME NEW w \in Workers, NEW f \in todo[w], FailOpen(w, f) PROVE TypeOK'
    BY <1>14 DEF FailOpen, AtCluster, Proceed, queueVars
  <1>15. ASSUME NEW w \in Workers, NEW f \in todo[w], LostReply(w, f) PROVE TypeOK'
    BY <1>15 DEF LostReply, AtCluster, Skip, queueVars
  <1>16. ASSUME NEW w \in Workers, Suppress(w) PROVE TypeOK'
    BY <1>16, <1>1 DEF Suppress
  <1>17. ASSUME NEW w \in Workers, Analyze(w) PROVE TypeOK'
    <2>1. PICK pre, post \in 0..MaxEscalations : togo' = [togo EXCEPT ![w] = 1 + pre + post]
      BY <1>17 DEF Analyze
    <2>2. 1 + pre + post \in 0..(1 + 2 * MaxEscalations)
      OBVIOUS
    <2>3. togo' \in [Workers -> 0..(1 + 2 * MaxEscalations)]
      BY <2>1, <2>2
    <2>4. QED BY <1>17, <2>3 DEF Analyze, queueVars, ghostVars
  <1>18. ASSUME NEW w \in Workers, Send(w) PROVE TypeOK'
    BY <1>18 DEF Send, queueVars, ghostVars
  <1>19. ASSUME NEW w \in Workers, SendLast(w) PROVE TypeOK'
    BY <1>19, <1>1 DEF SendLast
  <1>20. ASSUME NEW w \in Workers, SendFails(w) PROVE TypeOK'
    BY <1>20 DEF SendFails, queueVars, ghostVars
  <1>21. ASSUME NEW w \in Workers, Release(w) PROVE TypeOK'
    <2>0. fp[w] \in Fingerprints /\ 0 \in 0..TTL
      BY <1>21 DEF Release, Shape
    <2>1. ttl' \in [Fingerprints -> 0..TTL]
      BY <1>21, <2>0 DEF Release
    <2>2. holder' \in [Fingerprints -> Workers \union {"free", "settled", "orphan"}]
      BY <1>21 DEF Release
    <2>3. QED BY <1>21, <2>1, <2>2 DEF Release, EndRun, queueVars
  <1>22. ASSUME NEW w \in Workers, ReleaseFails(w) PROVE TypeOK'
    BY <1>22, <1>2 DEF ReleaseFails
  <1>23. ASSUME NEW w \in Workers, Kill(w) PROVE TypeOK'
    BY <1>23, <1>2 DEF Kill
  <1>24. CASE UNCHANGED vars
    BY <1>24 DEF vars, queueVars, runVars, ghostVars
  <1>25. QED
    BY <1>3, <1>4, <1>5, <1>6, <1>7, <1>8, <1>9, <1>10, <1>11, <1>12, <1>13, <1>14, <1>15, <1>16, <1>17, <1>18, <1>19, <1>20, <1>21, <1>22, <1>23, <1>24 DEF Next, RunStep, IsNew

(* Each action keeps a run's record, cluster and batch consistent.         *)
LEMMA ShapeStep == TypeOK /\ Shape /\ [Next]_vars => Shape'
  <1> SUFFICES ASSUME TypeOK, Shape, [Next]_vars PROVE Shape'
    OBVIOUS
  \* The types of the variables a run's shape is about.
  <1>0. /\ stage \in [Workers -> {"idle", "boot", "next"} \union Busy]
        /\ batch \in [Workers -> SUBSET Messages] /\ left \in [Workers -> SUBSET Messages]
        /\ cur \in [Workers -> Messages \union {None}]
        /\ todo \in [Workers -> SUBSET Fingerprints]
        /\ fp \in [Workers -> Fingerprints \union {None}]
        /\ mstate \in [Messages -> {"unsent", "queued", "deleted", "dlq"}]
    BY DEF TypeOK
  <1> USE <1>0, WorkType DEF Shape, Busy
  \* A run that ends leaves nothing behind.
  <1>26. ASSUME NEW w \in Workers, EndRun(w), UNCHANGED mstate PROVE Shape'
    <2>1. /\ batch' = [batch EXCEPT ![w] = {}] /\ left' = [left EXCEPT ![w] = {}]
          /\ todo' = [todo EXCEPT ![w] = {}] /\ stage' = [stage EXCEPT ![w] = "idle"]
          /\ cur' = [cur EXCEPT ![w] = None] /\ fp' = [fp EXCEPT ![w] = None]
      BY <1>26 DEF EndRun
    <2>2. batch'[w] = {} /\ todo'[w] = {} /\ left'[w] = {} /\ stage'[w] = "idle"
      BY <2>1
    <2>3. \A v \in Workers \ {w} :
            /\ batch'[v] = batch[v] /\ left'[v] = left[v] /\ todo'[v] = todo[v]
            /\ stage'[v] = stage[v] /\ cur'[v] = cur[v] /\ fp'[v] = fp[v]
      BY <2>1
    <2>4. QED BY <1>26, <2>2, <2>3
  <1>1. ASSUME NEW w \in Workers, SettleCluster(w), stage[w] \in Busy PROVE Shape'
    <2>1. /\ stage' = [stage EXCEPT ![w] = "next"] /\ fp' = [fp EXCEPT ![w] = None]
          /\ UNCHANGED <<mstate, batch, left, cur, todo>>
      BY <1>1 DEF SettleCluster, queueVars
    <2>2. QED BY <1>1, <2>1
  <1>2. ASSUME NEW w \in Workers, Abandon(w) PROVE Shape'
    BY <1>2, <1>26 DEF Abandon, queueVars
  <1>3. ASSUME NEW m \in Messages, Publish(m) PROVE Shape'
    BY <1>3 DEF Publish, runVars
  <1>4. ASSUME NEW m \in Messages, Redrive(m) PROVE Shape'
    BY <1>4 DEF Redrive, Deliverable, Invisible, Held, runVars
  <1>5. ASSUME NEW w \in Workers, NEW B \in SUBSET Messages, Receive(w, B) PROVE Shape'
    <2>1. \A m \in B : mstate[m] = "queued" /\ \A v \in Workers : m \notin batch[v]
      BY <1>5 DEF Receive, Deliverable, Invisible, Held
    <2>2. /\ batch' = [batch EXCEPT ![w] = B] /\ left' = [left EXCEPT ![w] = B]
          /\ stage' = [stage EXCEPT ![w] = "boot"] /\ stage[w] = "idle"
          /\ UNCHANGED <<mstate, cur, todo, fp>>
      BY <1>5 DEF Receive
    <2>3. batch[w] = {} /\ todo[w] = {}
      BY <2>2
    <2>4. QED BY <2>1, <2>2, <2>3
  <1>6. ASSUME Tick PROVE Shape'
    BY <1>6 DEF Tick, runVars
  <1>7. ASSUME NEW w \in Workers, Boot(w) PROVE Shape'
    <2>1. /\ stage[w] = "boot" /\ stage' = [stage EXCEPT ![w] = "next"]
          /\ UNCHANGED <<mstate, batch, left, cur, todo, fp>>
      BY <1>7 DEF Boot, queueVars
    <2>2. QED BY <2>1
  <1>8. ASSUME NEW w \in Workers, BootFails(w) PROVE Shape'
    BY <1>8, <1>26 DEF BootFails, queueVars
  <1>9. ASSUME NEW w \in Workers, StartRecord(w) PROVE Shape'
    <2>1. /\ UNCHANGED <<mstate, stage, batch, fp>> /\ stage[w] = "next" /\ todo[w] = {}
          /\ \E m \in left[w] : /\ left' = [left EXCEPT ![w] = @ \ {m}]
                               /\ cur' = [cur EXCEPT ![w] = m]
                               /\ todo' = [todo EXCEPT ![w] = Work[m]]
      BY <1>9 DEF StartRecord, queueVars
    <2>2. QED BY <2>1
  <1>10. ASSUME NEW w \in Workers, Return(w) PROVE Shape'
    <2>1. /\ EndRun(w) /\ stage[w] = "next" /\ todo[w] = {}
          /\ mstate' = [m \in Messages |-> IF m \in batch[w] THEN "deleted" ELSE mstate[m]]
      BY <1>10 DEF Return
    <2>2. /\ batch' = [batch EXCEPT ![w] = {}] /\ left' = [left EXCEPT ![w] = {}]
          /\ todo' = [todo EXCEPT ![w] = {}] /\ stage' = [stage EXCEPT ![w] = "idle"]
          /\ cur' = [cur EXCEPT ![w] = None] /\ fp' = [fp EXCEPT ![w] = None]
      BY <2>1 DEF EndRun
    <2>3. QED BY <2>1, <2>2
  <1>11. ASSUME NEW w \in Workers, DeleteFails(w) PROVE Shape'
    BY <1>11, <1>26 DEF DeleteFails, queueVars
  <1>12. ASSUME NEW w \in Workers, NEW f \in todo[w], Claim(w, f) PROVE Shape'
    <2>1. /\ todo' = [todo EXCEPT ![w] = @ \ {f}] /\ fp' = [fp EXCEPT ![w] = f]
          /\ stage' = [stage EXCEPT ![w] = "rules"] /\ stage[w] = "next"
          /\ UNCHANGED <<mstate, batch, left, cur>>
      BY <1>12 DEF Claim, AtCluster, Proceed, queueVars
    <2>2. QED BY <2>1
  <1>13. ASSUME NEW w \in Workers, NEW f \in todo[w], Duplicate(w, f) PROVE Shape'
    <2>1. /\ todo' = [todo EXCEPT ![w] = @ \ {f}]
          /\ UNCHANGED <<mstate, stage, batch, left, cur, fp>>
      BY <1>13 DEF Duplicate, Skip, queueVars
    <2>2. QED BY <2>1
  <1>14. ASSUME NEW w \in Workers, NEW f \in todo[w], FailOpen(w, f) PROVE Shape'
    <2>1. /\ todo' = [todo EXCEPT ![w] = @ \ {f}] /\ fp' = [fp EXCEPT ![w] = f]
          /\ stage' = [stage EXCEPT ![w] = "rules"] /\ stage[w] = "next"
          /\ UNCHANGED <<mstate, batch, left, cur>>
      BY <1>14 DEF FailOpen, AtCluster, Proceed, queueVars
    <2>2. QED BY <2>1
  <1>15. ASSUME NEW w \in Workers, NEW f \in todo[w], LostReply(w, f) PROVE Shape'
    <2>1. /\ todo' = [todo EXCEPT ![w] = @ \ {f}]
          /\ UNCHANGED <<mstate, stage, batch, left, cur, fp>>
      BY <1>15 DEF LostReply, Skip, queueVars
    <2>2. QED BY <2>1
  <1>16. ASSUME NEW w \in Workers, Suppress(w) PROVE Shape'
    BY <1>16, <1>1 DEF Suppress
  <1>17. ASSUME NEW w \in Workers, Analyze(w) PROVE Shape'
    BY <1>17 DEF Analyze, queueVars
  <1>18. ASSUME NEW w \in Workers, Send(w) PROVE Shape'
    BY <1>18 DEF Send, queueVars
  <1>19. ASSUME NEW w \in Workers, SendLast(w) PROVE Shape'
    BY <1>19, <1>1 DEF SendLast
  <1>20. ASSUME NEW w \in Workers, SendFails(w) PROVE Shape'
    BY <1>20 DEF SendFails, queueVars
  <1>21. ASSUME NEW w \in Workers, Release(w) PROVE Shape'
    BY <1>21, <1>26 DEF Release, queueVars
  <1>22. ASSUME NEW w \in Workers, ReleaseFails(w) PROVE Shape'
    BY <1>22, <1>2 DEF ReleaseFails
  <1>23. ASSUME NEW w \in Workers, Kill(w) PROVE Shape'
    BY <1>23, <1>2 DEF Kill
  <1>24. CASE UNCHANGED vars
    BY <1>24 DEF vars, queueVars, runVars
  <1>25. QED
    BY <1>3, <1>4, <1>5, <1>6, <1>7, <1>8, <1>9, <1>10, <1>11, <1>12, <1>13, <1>14, <1>15, <1>16, <1>17, <1>18, <1>19, <1>20, <1>21, <1>22, <1>23, <1>24 DEF Next, RunStep, IsNew

(* Every variable keeps its type in every reachable state.                 *)
THEOREM TypeCorrect == Spec => []TypeOK
  <1>1. TypeOK /\ Shape /\ [Next]_vars => (TypeOK /\ Shape)'
    BY TypeStep, ShapeStep
  <1>2. QED
    BY InitTypeShape, <1>1, PTL DEF Spec
-----------------------------------------------------------------------------
(* No silent loss.                                                         *)

(* Run w deals with f in this step: the only steps after which a message   *)
(* that owed f may owe it no more.                                         *)
Deals(w, f) ==
  \/ f \in todo[w] /\ (Duplicate(w, f) \/ LostReply(w, f))
  \/ stage[w] \in Busy /\ fp[w] = f /\ SettleCluster(w)

(* A message stays owed unless its own run deals with the fingerprint.     *)
LEMMA OwedKept ==
  ASSUME TypeOK, Shape, [Next]_vars,
         NEW m \in Messages, NEW f \in Work[m], Owed(m, f),
         \A w \in Workers : ~Deals(w, f)
  PROVE  Owed(m, f)'
  <1> USE DEF TypeOK, Shape, Busy, Owed, Passed
  <1>1. ASSUME NEW w \in Workers, SettleCluster(w), stage[w] \in Busy PROVE Owed(m, f)'
    <2>1. fp[w] # f
      BY <1>1 DEF Deals
    <2>2. /\ stage' = [stage EXCEPT ![w] = "next"] /\ fp' = [fp EXCEPT ![w] = None]
          /\ UNCHANGED <<mstate, batch, left, cur, todo>>
      BY <1>1 DEF SettleCluster, queueVars
    <2>3. ASSUME NEW v \in Workers PROVE Passed(v, m, f)' => Passed(v, m, f)
      BY <1>1, <2>1, <2>2
    <2>4. QED BY <2>2, <2>3
  <1>2. ASSUME NEW w \in Workers, EndRun(w), UNCHANGED mstate PROVE Owed(m, f)'
    BY <1>2 DEF EndRun
  <1>3. ASSUME NEW n \in Messages, Publish(n) PROVE Owed(m, f)'
    BY <1>3 DEF Publish, runVars
  <1>4. ASSUME NEW n \in Messages, Redrive(n) PROVE Owed(m, f)'
    BY <1>4 DEF Redrive, runVars
  <1>5. ASSUME NEW w \in Workers, NEW B \in SUBSET Messages, Receive(w, B) PROVE Owed(m, f)'
    BY <1>5 DEF Receive
  <1>6. CASE Tick
    BY <1>6 DEF Tick, runVars
  <1>7. ASSUME NEW w \in Workers, Boot(w) PROVE Owed(m, f)'
    BY <1>7, WorkType DEF Boot, queueVars
  <1>8. ASSUME NEW w \in Workers, StartRecord(w) PROVE Owed(m, f)'
    BY <1>8, WorkType DEF StartRecord, queueVars
  <1>9. ASSUME NEW w \in Workers, Analyze(w) PROVE Owed(m, f)'
    BY <1>9, WorkType DEF Analyze, queueVars
  <1>10. ASSUME NEW w \in Workers, Send(w) PROVE Owed(m, f)'
    BY <1>10, WorkType DEF Send, queueVars
  <1>11. ASSUME NEW w \in Workers, SendFails(w) PROVE Owed(m, f)'
    BY <1>11, WorkType DEF SendFails, queueVars
  <1>12. ASSUME NEW w \in Workers, Return(w) PROVE Owed(m, f)'
    <2>1. m \notin batch[w]
      BY <1>12 DEF Return
    <2>2. QED BY <1>12, <2>1 DEF Return, EndRun
  <1>13. ASSUME NEW w \in Workers, BootFails(w) PROVE Owed(m, f)'
    BY <1>13, <1>2 DEF BootFails, queueVars
  <1>14. ASSUME NEW w \in Workers, DeleteFails(w) PROVE Owed(m, f)'
    BY <1>14, <1>2 DEF DeleteFails, queueVars
  <1>15. ASSUME NEW w \in Workers, Release(w) PROVE Owed(m, f)'
    BY <1>15, <1>2 DEF Release, queueVars
  <1>16. ASSUME NEW w \in Workers, ReleaseFails(w) PROVE Owed(m, f)'
    BY <1>16, <1>2 DEF ReleaseFails, Abandon, queueVars
  <1>17. ASSUME NEW w \in Workers, Kill(w) PROVE Owed(m, f)'
    BY <1>17, <1>2 DEF Kill, Abandon, queueVars
  <1>18. ASSUME NEW w \in Workers, NEW g \in todo[w], Claim(w, g) PROVE Owed(m, f)'
    BY <1>18 DEF Claim, AtCluster, Proceed, queueVars
  <1>19. ASSUME NEW w \in Workers, NEW g \in todo[w], Duplicate(w, g) PROVE Owed(m, f)'
    <2>1. g # f
      BY <1>19 DEF Deals
    <2>2. QED BY <1>19, <2>1 DEF Duplicate, AtCluster, Skip, queueVars
  <1>20. ASSUME NEW w \in Workers, NEW g \in todo[w], FailOpen(w, g) PROVE Owed(m, f)'
    BY <1>20 DEF FailOpen, AtCluster, Proceed, queueVars
  <1>21. ASSUME NEW w \in Workers, NEW g \in todo[w], LostReply(w, g) PROVE Owed(m, f)'
    <2>1. g # f
      BY <1>21 DEF Deals
    <2>2. QED BY <1>21, <2>1 DEF LostReply, AtCluster, Skip, queueVars
  <1>22. ASSUME NEW w \in Workers, Suppress(w) PROVE Owed(m, f)'
    BY <1>22, <1>1 DEF Suppress
  <1>23. ASSUME NEW w \in Workers, SendLast(w) PROVE Owed(m, f)'
    BY <1>23, <1>1 DEF SendLast
  <1>24. CASE UNCHANGED vars
    BY <1>24 DEF vars, queueVars, runVars
  <1>25. QED
    BY <1>3, <1>4, <1>5, <1>6, <1>7, <1>8, <1>9, <1>10, <1>11, <1>12, <1>13, <1>14, <1>15, <1>16, <1>17, <1>18, <1>19, <1>20, <1>21, <1>22, <1>23, <1>24 DEF Next, RunStep, IsNew

(* What any step does to the history.                                      *)
LEMMA StepEffects ==
  ASSUME TypeOK, Shape, [Next]_vars
  PROVE  /\ settled \subseteq settled' /\ orphaned \subseteq orphaned'
         /\ \A m \in Messages : mstate[m] # "unsent" => mstate'[m] # "unsent"
         /\ \A m \in Messages : mstate'[m] # "unsent" => mstate[m] # "unsent" \/ Publish(m)
         /\ \A f \in Fingerprints : holder'[f] = "settled" /\ holder[f] # "settled" =>
              \E w \in Workers : stage[w] \in Busy /\ fp[w] = f /\ holder[f] = w /\ SettleCluster(w)
  <1> DEFINE Goal ==
         /\ settled \subseteq settled' /\ orphaned \subseteq orphaned'
         /\ \A m \in Messages : mstate[m] # "unsent" => mstate'[m] # "unsent"
         /\ \A m \in Messages : mstate'[m] # "unsent" => mstate[m] # "unsent" \/ Publish(m)
         /\ \A f \in Fingerprints : holder'[f] = "settled" /\ holder[f] # "settled" =>
              \E w \in Workers : stage[w] \in Busy /\ fp[w] = f /\ holder[f] = w /\ SettleCluster(w)
  <1> USE NamesAssumption DEF TypeOK, Shape, Busy
  <1>1. ASSUME NEW w \in Workers, SettleCluster(w), stage[w] \in Busy PROVE Goal
    <2>1. /\ settled \subseteq settled' /\ UNCHANGED <<mstate, orphaned>>
          /\ \A f \in Fingerprints \ {fp[w]} : holder'[f] = holder[f]
          /\ fp[w] \in Fingerprints => holder'[fp[w]] = IF holder[fp[w]] = w THEN "settled" ELSE holder[fp[w]]
      BY <1>1 DEF SettleCluster, queueVars
    <2>2. QED BY <1>1, <2>1
  <1>2. ASSUME NEW w \in Workers, Abandon(w) PROVE Goal
    BY <1>2 DEF Abandon, OwnedBy, queueVars
  <1>3. ASSUME NEW n \in Messages, Publish(n) PROVE Goal
    <2>1. /\ UNCHANGED <<settled, orphaned, holder>>
          /\ mstate' = [mstate EXCEPT ![n] = "queued"]
      BY <1>3 DEF Publish, ghostVars
    <2>2. QED BY <1>3, <2>1
  <1>4. ASSUME NEW n \in Messages, Redrive(n) PROVE Goal
    BY <1>4 DEF Redrive, Deliverable, ghostVars
  <1>5. ASSUME NEW w \in Workers, NEW B \in SUBSET Messages, Receive(w, B) PROVE Goal
    BY <1>5 DEF Receive, ghostVars
  <1>6. ASSUME NEW w \in Workers, Boot(w) PROVE Goal
    BY <1>6 DEF Boot, queueVars, ghostVars
  <1>7. ASSUME NEW w \in Workers, BootFails(w) PROVE Goal
    BY <1>7 DEF BootFails, queueVars, ghostVars
  <1>8. ASSUME NEW w \in Workers, StartRecord(w) PROVE Goal
    BY <1>8 DEF StartRecord, queueVars, ghostVars
  <1>9. ASSUME NEW w \in Workers, Return(w) PROVE Goal
    BY <1>9 DEF Return, ghostVars
  <1>10. ASSUME NEW w \in Workers, DeleteFails(w) PROVE Goal
    BY <1>10 DEF DeleteFails, queueVars, ghostVars
  <1>11. ASSUME NEW w \in Workers, Suppress(w) PROVE Goal
    BY <1>11, <1>1 DEF Suppress
  <1>12. ASSUME NEW w \in Workers, Analyze(w) PROVE Goal
    BY <1>12 DEF Analyze, queueVars, ghostVars
  <1>13. ASSUME NEW w \in Workers, Send(w) PROVE Goal
    BY <1>13 DEF Send, queueVars, ghostVars
  <1>14. ASSUME NEW w \in Workers, SendLast(w) PROVE Goal
    BY <1>14, <1>1 DEF SendLast
  <1>15. ASSUME NEW w \in Workers, SendFails(w) PROVE Goal
    BY <1>15 DEF SendFails, queueVars, ghostVars
  <1>16. ASSUME NEW w \in Workers, Release(w) PROVE Goal
    BY <1>16 DEF Release, queueVars
  <1>17. ASSUME NEW w \in Workers, ReleaseFails(w) PROVE Goal
    BY <1>17, <1>2 DEF ReleaseFails
  <1>18. ASSUME NEW w \in Workers, Kill(w) PROVE Goal
    BY <1>18, <1>2 DEF Kill
  <1>19. ASSUME NEW w \in Workers, NEW g \in todo[w], Claim(w, g) PROVE Goal
    BY <1>19 DEF Claim, AtCluster, Proceed, queueVars
  <1>20. ASSUME NEW w \in Workers, NEW g \in todo[w], Duplicate(w, g) PROVE Goal
    BY <1>20 DEF Duplicate, Skip, queueVars
  <1>21. ASSUME NEW w \in Workers, NEW g \in todo[w], FailOpen(w, g) PROVE Goal
    BY <1>21 DEF FailOpen, Proceed, queueVars
  <1>22. ASSUME NEW w \in Workers, NEW g \in todo[w], LostReply(w, g) PROVE Goal
    BY <1>22 DEF LostReply, Skip, queueVars
  <1>23. ASSUME Tick PROVE Goal
    BY <1>23 DEF Tick
  <1>24. CASE UNCHANGED vars
    BY <1>24 DEF vars, queueVars, ghostVars
  <1>25. QED
    BY <1>3, <1>4, <1>5, <1>6, <1>7, <1>8, <1>9, <1>10, <1>11, <1>12, <1>13, <1>14, <1>15, <1>16, <1>17, <1>18, <1>19, <1>20, <1>21, <1>22, <1>23, <1>24 DEF Next, RunStep, IsNew

(* Each action keeps the account of whom a live claim belongs to.          *)
LEMMA StatusStep == TypeOK /\ Shape /\ ClaimStatus /\ [Next]_vars => ClaimStatus'
  <1> SUFFICES ASSUME TypeOK, Shape, ClaimStatus, [Next]_vars PROVE ClaimStatus'
    OBVIOUS
  <1> USE NamesAssumption, PipelineAssumption DEF TypeOK, ClaimStatus, Busy
  <1>1. ASSUME NEW w \in Workers, SettleCluster(w), stage[w] \in Busy PROVE ClaimStatus'
    BY <1>1 DEF SettleCluster, queueVars
  <1>2. ASSUME NEW w \in Workers, Abandon(w) PROVE ClaimStatus'
    BY <1>2 DEF Abandon, OwnedBy, EndRun, queueVars
  <1>3. ASSUME NEW n \in Messages, Publish(n) PROVE ClaimStatus'
    BY <1>3 DEF Publish, runVars, ghostVars
  <1>4. ASSUME NEW n \in Messages, Redrive(n) PROVE ClaimStatus'
    BY <1>4 DEF Redrive, runVars, ghostVars
  <1>5. ASSUME NEW w \in Workers, NEW B \in SUBSET Messages, Receive(w, B) PROVE ClaimStatus'
    BY <1>5 DEF Receive, ghostVars
  <1>6. ASSUME NEW w \in Workers, Boot(w) PROVE ClaimStatus'
    BY <1>6 DEF Boot, queueVars, ghostVars
  <1>7. ASSUME NEW w \in Workers, BootFails(w) PROVE ClaimStatus'
    BY <1>7 DEF BootFails, EndRun, ghostVars
  <1>8. ASSUME NEW w \in Workers, StartRecord(w) PROVE ClaimStatus'
    BY <1>8 DEF StartRecord, queueVars, ghostVars
  <1>9. ASSUME NEW w \in Workers, Return(w) PROVE ClaimStatus'
    BY <1>9 DEF Return, EndRun, ghostVars
  <1>10. ASSUME NEW w \in Workers, DeleteFails(w) PROVE ClaimStatus'
    BY <1>10 DEF DeleteFails, EndRun, ghostVars
  <1>11. ASSUME NEW w \in Workers, Suppress(w) PROVE ClaimStatus'
    BY <1>11, <1>1 DEF Suppress
  <1>12. ASSUME NEW w \in Workers, Analyze(w) PROVE ClaimStatus'
    BY <1>12 DEF Analyze, queueVars, ghostVars
  <1>13. ASSUME NEW w \in Workers, Send(w) PROVE ClaimStatus'
    BY <1>13 DEF Send, queueVars, ghostVars
  <1>14. ASSUME NEW w \in Workers, SendLast(w) PROVE ClaimStatus'
    BY <1>14, <1>1 DEF SendLast
  <1>15. ASSUME NEW w \in Workers, SendFails(w) PROVE ClaimStatus'
    BY <1>15 DEF SendFails, queueVars, ghostVars
  <1>16. ASSUME NEW w \in Workers, Release(w) PROVE ClaimStatus'
    BY <1>16 DEF Release, EndRun, queueVars
  <1>17. ASSUME NEW w \in Workers, ReleaseFails(w) PROVE ClaimStatus'
    BY <1>17, <1>2 DEF ReleaseFails
  <1>18. ASSUME NEW w \in Workers, Kill(w) PROVE ClaimStatus'
    BY <1>18, <1>2 DEF Kill
  <1>19. ASSUME NEW w \in Workers, NEW g \in todo[w], Claim(w, g) PROVE ClaimStatus'
    BY <1>19 DEF Claim, AtCluster, Proceed, queueVars
  <1>20. ASSUME NEW w \in Workers, NEW g \in todo[w], Duplicate(w, g) PROVE ClaimStatus'
    BY <1>20 DEF Duplicate, AtCluster, Skip, queueVars
  <1>21. ASSUME NEW w \in Workers, NEW g \in todo[w], FailOpen(w, g) PROVE ClaimStatus'
    BY <1>21 DEF FailOpen, AtCluster, Proceed, queueVars
  <1>22. ASSUME NEW w \in Workers, NEW g \in todo[w], LostReply(w, g) PROVE ClaimStatus'
    BY <1>22 DEF LostReply, AtCluster, Skip, queueVars
  <1>23. ASSUME Tick PROVE ClaimStatus'
    BY <1>23 DEF Tick, Countdown, runVars
  <1>24. CASE UNCHANGED vars
    BY <1>24 DEF vars, queueVars, runVars, ghostVars
  <1>25. QED
    BY <1>3, <1>4, <1>5, <1>6, <1>7, <1>8, <1>9, <1>10, <1>11, <1>12, <1>13, <1>14, <1>15, <1>16, <1>17, <1>18, <1>19, <1>20, <1>21, <1>22, <1>23, <1>24 DEF Next, RunStep, IsNew

(* Asking in the next state: nobody stops asking, and who starts is owed.  *)
LEMMA AskingStep ==
  ASSUME TypeOK, Shape, [Next]_vars, NEW f \in Fingerprints
  PROVE  /\ Asking(f) \subseteq Asking(f)'
         /\ \A m \in Asking(f)' : m \in Asking(f) \/ Owed(m, f)'
  <1>1. Asking(f) \subseteq Asking(f)'
    BY StepEffects DEF Asking
  <1>2. ASSUME NEW m \in Asking(f)', m \notin Asking(f) PROVE Owed(m, f)'
    <2>1. m \in Messages /\ Publish(m)
      BY <1>2, StepEffects DEF Asking
    <2>2. \A w \in Workers : m \notin batch[w]
      BY <2>1 DEF Publish, Shape
    <2>3. QED BY <2>1, <2>2 DEF Publish, runVars, Owed, Passed, TypeOK
  <1>3. QED BY <1>1, <1>2

(* A duplicate or a lost reply takes f off nobody's list but the message   *)
(* the run holds.                                                          *)
LEMMA OwedByOthers ==
  ASSUME TypeOK, Shape, NEW w \in Workers, NEW f \in todo[w],
         Duplicate(w, f) \/ LostReply(w, f),
         NEW m \in Messages, m # cur[w], Owed(m, f)
  PROVE  Owed(m, f)'
  BY DEF TypeOK, Shape, Busy, Owed, Passed, Duplicate, LostReply, AtCluster, Skip, queueVars

(* A settlement stands: who asks later is answered, stranded or owed.      *)
LEMMA SettledStandsStep == Inv /\ [Next]_vars => SettledStands'
  <1> SUFFICES ASSUME Inv, [Next]_vars, NEW f \in Fingerprints, holder'[f] = "settled"
               PROVE  /\ \E m \in Asking(f)' : <<m, f>> \in settled'
                      /\ \A m \in Asking(f)' :
                           <<m, f>> \in settled' \/ f \in orphaned' \/ Owed(m, f)'
    BY DEF SettledStands
  <1> USE DEF Inv
  \* The run that holds the claim settles it in this step.
  <1>1. ASSUME NEW w \in Workers, stage[w] \in Busy, fp[w] = f, SettleCluster(w)
        PROVE  /\ \E m \in Asking(f)' : <<m, f>> \in settled'
               /\ \A m \in Asking(f)' : <<m, f>> \in settled'
    <2>1. settled' = settled \union {<<m, f>> : m \in Asking(f)} /\ mstate' = mstate
      BY <1>1 DEF SettleCluster, queueVars
    <2>2. Asking(f)' = Asking(f)
      BY <2>1 DEF Asking
    <2>3. cur[w] \in Asking(f)
      BY <1>1, WorkType DEF Shape, Asking, TypeOK
    <2>4. QED BY <2>1, <2>2, <2>3
  <1>2. CASE holder[f] # "settled"
    BY <1>1, <1>2, StepEffects
  <1>3. CASE holder[f] = "settled"
    <2>1. \E m \in Asking(f)' : <<m, f>> \in settled'
      BY <1>3, StepEffects, AskingStep DEF SettledStands
    <2>2. ASSUME NEW m \in Asking(f), Owed(m, f), \A w \in Workers : ~Deals(w, f)
          PROVE  Owed(m, f)'
      BY <2>2, OwedKept DEF Asking
    <2>3. ASSUME NEW m \in Asking(f), Owed(m, f), NEW w \in Workers, f \in todo[w], Duplicate(w, f)
          PROVE  <<m, f>> \in settled' \/ Owed(m, f)'
      <3>1. CASE m = cur[w]
        BY <1>3, <2>3, <3>1 DEF Duplicate
      <3>2. CASE m # cur[w]
        BY <2>3, <3>2, OwedByOthers DEF Asking
      <3>3. QED BY <3>1, <3>2
    <2>4. ASSUME NEW w \in Workers, f \in todo[w], LostReply(w, f)
          PROVE  f \in orphaned'
      BY <2>4 DEF LostReply
    <2>5. ASSUME NEW m \in Asking(f)' PROVE <<m, f>> \in settled' \/ f \in orphaned' \/ Owed(m, f)'
      <3>1. CASE m \notin Asking(f)
        BY <2>5, <3>1, AskingStep
      <3>2. CASE m \in Asking(f)
        <4>1. <<m, f>> \in settled \/ f \in orphaned \/ Owed(m, f)
          BY <1>3, <3>2 DEF SettledStands
        <4>2. QED BY <4>1, <3>2, <1>1, <2>2, <2>3, <2>4, <2>5, StepEffects DEF Deals
      <3>3. QED BY <3>1, <3>2
    <2>6. QED BY <2>1, <2>5
  <1>4. QED BY <1>2, <1>3

(* No step leaves an alert with nobody to answer for it.                   *)
LEMMA NoSilentLossStep == Inv /\ [Next]_vars => NoSilentLoss'
  <1> SUFFICES ASSUME Inv, [Next]_vars, NEW f \in Fingerprints, NEW m \in Asking(f)'
               PROVE  <<m, f>> \in settled' \/ f \in orphaned' \/ Responsible(f)'
    BY DEF NoSilentLoss
  <1> USE DEF Inv
  <1>1. ASSUME NEW n \in Messages, f \in Work[n], Owed(n, f)' PROVE Responsible(f)'
    BY <1>1 DEF Responsible, Work
  <1>2. CASE m \notin Asking(f)
    BY <1>1, <1>2, AskingStep DEF Asking, Work
  <1>3. CASE m \in Asking(f) /\ \A w \in Workers : ~Deals(w, f)
    BY <1>1, <1>3, OwedKept, StepEffects DEF NoSilentLoss, Responsible
  <1>4. ASSUME NEW w \in Workers, f \in todo[w], LostReply(w, f) PROVE f \in orphaned'
    BY <1>4 DEF LostReply
  <1>5. ASSUME NEW w \in Workers, stage[w] \in Busy, fp[w] = f, SettleCluster(w), m \in Asking(f)
        PROVE  <<m, f>> \in settled'
    BY <1>5 DEF SettleCluster
  \* A duplicate is dropped: whose claim is it?
  <1>6. ASSUME NEW w \in Workers, f \in todo[w], Duplicate(w, f), m \in Asking(f)
        PROVE  <<m, f>> \in settled' \/ f \in orphaned' \/ Responsible(f)'
    <2>1. CASE holder[f] = "settled"
      <3>1. <<m, f>> \in settled \/ f \in orphaned \/ Owed(m, f)
        BY <1>6, <2>1 DEF SettledStands
      <3>2. CASE m = cur[w]
        BY <1>6, <2>1, <3>2 DEF Duplicate
      <3>3. CASE m # cur[w] /\ Owed(m, f)
        BY <1>1, <1>6, <3>3, OwedByOthers DEF Asking
      <3>4. QED BY <3>1, <3>2, <3>3, StepEffects
    <2>2. CASE holder[f] = "orphan"
      BY <2>2, StepEffects DEF ClaimStatus
    <2>3. ASSUME NEW v \in Workers, holder[f] = v PROVE Responsible(f)'
      <3>1. stage[v] \in Busy /\ fp[v] = f /\ v # w
        BY <1>6, <2>3 DEF ClaimStatus, Duplicate, AtCluster, Busy
      <3>2. PICK n \in Messages : n = cur[v]
        BY <3>1 DEF Shape, TypeOK
      <3>3. n \in batch[v] \ left[v] /\ f \in Work[n] /\ n # cur[w]
        BY <1>6, <3>1, <3>2 DEF Shape
      <3>4. \A u \in Workers : ~Passed(u, n, f)
        BY <3>1, <3>2, <3>3 DEF Passed, Shape
      <3>5. Owed(n, f)
        BY <3>3, <3>4 DEF Owed, Shape
      <3>6. Owed(n, f)'
        BY <1>6, <3>3, <3>5, OwedByOthers
      <3>7. QED
        BY <1>1, <3>3, <3>6
    <2>4. holder[f] # "free"
      BY <1>6 DEF ClaimStatus, Duplicate
    <2>5. QED BY <2>1, <2>2, <2>3, <2>4 DEF TypeOK
  <1>7. QED BY <1>2, <1>3, <1>4, <1>5, <1>6 DEF Deals

(* The inductive invariant holds at the start.                             *)
LEMMA InitInv == Init => Inv
  <1> SUFFICES ASSUME Init PROVE Inv
    OBVIOUS
  <1>1. TypeOK /\ Shape
    BY InitTypeShape
  <1>2. \A f \in Fingerprints : Asking(f) = {}
    BY DEF Init, Asking
  <1>3. ClaimStatus
    BY NamesAssumption DEF Init, ClaimStatus
  <1>4. QED BY <1>1, <1>2, <1>3 DEF Inv, SettledStands, NoSilentLoss, Init

(* Each step keeps the inductive invariant.                                *)
LEMMA InvStep == Inv /\ [Next]_vars => Inv'
  BY TypeStep, ShapeStep, StatusStep, SettledStandsStep, NoSilentLossStep DEF Inv

(* The inductive invariant holds throughout.                               *)
LEMMA Invariance == Spec => []Inv
  BY InitInv, InvStep, PTL DEF Spec

(* An alert in the queue is settled, still owed by some message, or its    *)
(* fingerprint was left claimed by a fault: whatever runs overlap.         *)
THEOREM NothingLostSilently == Spec => []NoSilentLoss
  <1>1. Inv => NoSilentLoss
    BY DEF Inv
  <1>2. QED BY <1>1, Invariance, PTL

-----------------------------------------------------------------------------
(* One run per fingerprint at a time, while claims are made and outlive    *)
(* the visibility timeout.                                                 *)

(* A busy run keeps its claim, which outlives its messages' visibility.    *)
LEMMA BusyOwnsClaimStep ==
  ASSUME TypeOK, Shape, ClaimStatus, BusyOwnsClaim, [Next]_vars
  PROVE  BusyOwnsClaim'
  <1> SUFFICES ASSUME Guarded,
                      \A w \in Workers : stage[w] \in Busy =>
                        holder[fp[w]] = w /\ \A m \in batch[w] : hidden[m] < ttl[fp[w]]
               PROVE  BusyOwnsClaim'
    BY DEF BusyOwnsClaim, Guarded
  <1> USE NamesAssumption, PipelineAssumption DEF TypeOK, BusyOwnsClaim, Busy
  <1>0. ASSUME NEW w \in Workers, stage[w] \in Busy
        PROVE  fp[w] \in Fingerprints /\ cur[w] \in batch[w] /\ ttl[fp[w]] > 0
    <2>1. cur[w] \in batch[w] /\ cur[w] \in Messages /\ fp[w] \in Fingerprints
      BY <1>0, WorkType DEF Shape
    <2>2. hidden[cur[w]] \in Nat /\ hidden[cur[w]] < ttl[fp[w]]
      BY <1>0, <2>1
    <2>3. QED BY <2>1, <2>2
  <1>1. ASSUME NEW w \in Workers, SettleCluster(w), stage[w] \in Busy PROVE BusyOwnsClaim'
    BY <1>1, <1>0 DEF SettleCluster, queueVars
  <1>2. ASSUME NEW w \in Workers, Abandon(w) PROVE BusyOwnsClaim'
    BY <1>2, <1>0 DEF Abandon, OwnedBy, EndRun, queueVars
  <1>3. ASSUME NEW w \in Workers, EndRun(w), UNCHANGED <<hidden, ttl, holder>> PROVE BusyOwnsClaim'
    BY <1>3 DEF EndRun
  <1>4. ASSUME NEW n \in Messages, Publish(n) PROVE BusyOwnsClaim'
    BY <1>4 DEF Publish, runVars, ghostVars
  <1>5. ASSUME NEW n \in Messages, Redrive(n) PROVE BusyOwnsClaim'
    BY <1>5 DEF Redrive, runVars, ghostVars
  <1>6. ASSUME NEW w \in Workers, NEW B \in SUBSET Messages, Receive(w, B) PROVE BusyOwnsClaim'
    BY <1>6, <1>0 DEF Receive, Deliverable, Invisible, Held, ghostVars
  <1>7. ASSUME NEW w \in Workers, Boot(w) PROVE BusyOwnsClaim'
    BY <1>7 DEF Boot, queueVars, ghostVars
  <1>8. ASSUME NEW w \in Workers, BootFails(w) PROVE BusyOwnsClaim'
    BY <1>8, <1>3 DEF BootFails, queueVars, ghostVars
  <1>9. ASSUME NEW w \in Workers, StartRecord(w) PROVE BusyOwnsClaim'
    BY <1>9 DEF StartRecord, queueVars, ghostVars
  <1>10. ASSUME NEW w \in Workers, Return(w) PROVE BusyOwnsClaim'
    BY <1>10, <1>3 DEF Return, ghostVars
  <1>11. ASSUME NEW w \in Workers, DeleteFails(w) PROVE BusyOwnsClaim'
    BY <1>11, <1>3 DEF DeleteFails, queueVars, ghostVars
  <1>12. ASSUME NEW w \in Workers, Suppress(w) PROVE BusyOwnsClaim'
    BY <1>12, <1>1 DEF Suppress
  <1>13. ASSUME NEW w \in Workers, Analyze(w) PROVE BusyOwnsClaim'
    BY <1>13 DEF Analyze, queueVars, ghostVars
  <1>14. ASSUME NEW w \in Workers, Send(w) PROVE BusyOwnsClaim'
    BY <1>14 DEF Send, queueVars, ghostVars
  <1>15. ASSUME NEW w \in Workers, SendLast(w) PROVE BusyOwnsClaim'
    BY <1>15, <1>1 DEF SendLast
  <1>16. ASSUME NEW w \in Workers, SendFails(w) PROVE BusyOwnsClaim'
    BY <1>16 DEF SendFails, queueVars, ghostVars
  <1>17. ASSUME NEW w \in Workers, Release(w) PROVE BusyOwnsClaim'
    <2>1. \A v \in Workers \ {w} : stage[v] \in Busy => fp[v] # fp[w] /\ fp[v] \in Fingerprints
      BY <1>17, <1>0 DEF Release
    <2>2. QED BY <1>17, <2>1 DEF Release, EndRun, queueVars
  <1>18. ASSUME NEW w \in Workers, ReleaseFails(w) PROVE BusyOwnsClaim'
    BY <1>18, <1>2 DEF ReleaseFails
  <1>19. ASSUME NEW w \in Workers, Kill(w) PROVE BusyOwnsClaim'
    BY <1>19, <1>2 DEF Kill
  <1>20. ASSUME NEW w \in Workers, NEW g \in todo[w], Claim(w, g) PROVE BusyOwnsClaim'
    <2>1. g \in Fingerprints /\ ttl[g] = 0 /\ Visibility < TTL
      BY <1>20 DEF Claim, AtCluster, Guarded
    <2>2. ASSUME NEW v \in Workers \ {w}, stage'[v] \in Busy
          PROVE  holder'[fp'[v]] = v /\ \A m \in batch'[v] : hidden'[m] < ttl'[fp'[v]]
      <3>1. stage[v] \in Busy /\ fp'[v] = fp[v] /\ batch' = batch /\ hidden' = hidden
        BY <1>20, <2>2 DEF Claim, Proceed, queueVars
      <3>2. fp[v] \in Fingerprints /\ fp[v] # g
        BY <1>0, <2>1, <3>1
      <3>3. holder'[fp[v]] = holder[fp[v]] /\ ttl'[fp[v]] = ttl[fp[v]]
        BY <1>20, <3>2 DEF Claim
      <3>4. QED BY <3>1, <3>3
    <2>3. holder'[fp'[w]] = w /\ \A m \in batch'[w] : hidden'[m] < ttl'[fp'[w]]
      <3>1. fp'[w] = g /\ batch' = batch /\ hidden' = hidden /\ ttl'[g] = TTL /\ holder'[g] = w
        BY <1>20, <2>1 DEF Claim, Proceed, queueVars
      <3>2. \A m \in batch[w] : hidden[m] <= Visibility /\ hidden[m] \in Nat
        OBVIOUS
      <3>3. QED BY <2>1, <3>1, <3>2
    <2>4. QED BY <2>2, <2>3
  <1>21. ASSUME NEW w \in Workers, NEW g \in todo[w], Duplicate(w, g) PROVE BusyOwnsClaim'
    BY <1>21 DEF Duplicate, AtCluster, Skip, queueVars
  <1>22. ASSUME NEW w \in Workers, NEW g \in todo[w], FailOpen(w, g) PROVE BusyOwnsClaim'
    BY <1>22 DEF FailOpen, Guarded
  <1>23. ASSUME NEW w \in Workers, NEW g \in todo[w], LostReply(w, g) PROVE BusyOwnsClaim'
    BY <1>23, <1>0 DEF LostReply, AtCluster, Skip, queueVars
  <1>24. ASSUME Tick PROVE BusyOwnsClaim'
    <2>1. ASSUME NEW w \in Workers, stage[w] \in Busy
          PROVE  holder'[fp[w]] = w /\ \A m \in batch[w] : hidden'[m] < ttl'[fp[w]]
      <3>1. \A m \in batch[w] : hidden[m] \in Nat /\ hidden[m] > 0 /\ hidden[m] < ttl[fp[w]]
        BY <1>24, <2>1 DEF Tick
      <3>2. fp[w] \in Fingerprints /\ ttl[fp[w]] \in Nat /\ ttl[fp[w]] > 1
        BY <2>1, <3>1, <1>0
      <3>3. holder'[fp[w]] = w
        BY <1>24, <2>1, <3>2 DEF Tick
      <3>4. \A m \in batch[w] : hidden'[m] = hidden[m] - 1
        BY <1>24, <3>1 DEF Tick, Countdown
      <3>5. ttl'[fp[w]] = ttl[fp[w]] - 1
        BY <1>24, <3>2 DEF Tick, Countdown
      <3>6. QED BY <3>1, <3>2, <3>3, <3>4, <3>5
    <2>2. QED BY <1>24, <2>1 DEF Tick, runVars
  <1>25. CASE UNCHANGED vars
    BY <1>25 DEF vars, queueVars, runVars, ghostVars
  <1>26. QED
    BY <1>4, <1>5, <1>6, <1>7, <1>8, <1>9, <1>10, <1>11, <1>12, <1>13, <1>14, <1>15, <1>16, <1>17, <1>18, <1>19, <1>20, <1>21, <1>22, <1>23, <1>24, <1>25 DEF Next, RunStep, IsNew

(* A busy run owns its claim throughout.                                   *)
LEMMA BusyInvariance == Spec => []BusyOwnsClaim
  <1>1. Init => BusyOwnsClaim
    BY DEF Init, BusyOwnsClaim, Busy
  <1>2. Inv /\ BusyOwnsClaim /\ [Next]_vars => BusyOwnsClaim'
    BY BusyOwnsClaimStep DEF Inv
  <1>3. QED BY <1>1, <1>2, Invariance, PTL DEF Spec

(* No two runs work on one fingerprint at a time, and none while a settled *)
(* claim on it lives.                                                      *)
THEOREM ProcessingIsExclusive == Spec => []ExclusiveProcessing
  <1>1. BusyOwnsClaim => ExclusiveProcessing
    BY NamesAssumption DEF BusyOwnsClaim, ExclusiveProcessing
  <1>2. QED BY <1>1, BusyInvariance, PTL

(* reset never deletes another run's claim under the same conditions.      *)
THEOREM ReleasesAreOwn == Spec => ReleaseOwnClaim
  <1>1. TypeOK /\ Shape /\ BusyOwnsClaim =>
          (Guarded => \A w \in Workers : Release(w) => holder[fp[w]] = w /\ ttl[fp[w]] > 0)
    <2> SUFFICES ASSUME TypeOK, Shape, BusyOwnsClaim, Guarded, NEW w \in Workers, Release(w)
                 PROVE  holder[fp[w]] = w /\ ttl[fp[w]] > 0
      OBVIOUS
    <2>1. stage[w] \in Busy /\ cur[w] \in batch[w] /\ cur[w] \in Messages /\ fp[w] \in Fingerprints
      BY WorkType DEF Release, Busy, Shape, TypeOK
    <2>2. holder[fp[w]] = w /\ hidden[cur[w]] < ttl[fp[w]] /\ hidden[cur[w]] \in Nat
      BY <2>1, PipelineAssumption DEF BusyOwnsClaim, TypeOK
    <2>3. ttl[fp[w]] \in Nat
      BY <2>1, PipelineAssumption DEF TypeOK
    <2>4. QED BY <2>2, <2>3
  <1>2. Inv => TypeOK /\ Shape
    BY DEF Inv
  <1>3. QED BY <1>1, <1>2, Invariance, BusyInvariance, PTL DEF ReleaseOwnClaim

-----------------------------------------------------------------------------
(* The pipeline implements IncidentDelivery: for every number of workers,  *)
(* messages, groups and fingerprints, as long as no fault strands a claim. *)

(* No run is killed, no release fails, no reply of the store is lost.      *)
NoStrandingFault == Faults \intersect {"reply", "reset", "kill"} = {}

(* No claim was ever left behind.                                         *)
Unstranded == orphaned = {}

(* The mapped variables of the abstract specification.                     *)
Accepted == {m \in Messages : mstate[m] # "unsent"}
Acked == {m \in Messages : mstate[m] = "deleted"}
Parked == {m \in Messages : mstate[m] = "dlq"}

(* The steps the abstract specification does not see.                      *)
LEMMA HiddenStep ==
  ASSUME UNCHANGED <<mstate, settled>>
  PROVE  UNCHANGED Delivery!vars
  BY DEF Delivery!vars

(* No step of a run leaves a claim behind.                                 *)
LEMMA UnstrandedStep ==
  ASSUME NoStrandingFault, Unstranded, [Next]_vars
  PROVE  Unstranded'
  <1> USE DEF NoStrandingFault, Unstranded
  <1>1. ASSUME NEW w \in Workers, SettleCluster(w) PROVE orphaned' = orphaned
    BY <1>1 DEF SettleCluster
  <1>2. ASSUME NEW w \in Workers, RunStep(w) PROVE orphaned' = orphaned
    BY <1>1, <1>2
       DEF RunStep, Boot, BootFails, StartRecord, IsNew, Claim, Duplicate, FailOpen, LostReply,
           Proceed, Skip, Suppress, Analyze, Send, SendLast, SendFails, Release, ReleaseFails,
           Return, DeleteFails, ghostVars
  <1>3. ASSUME NEW m \in Messages, Publish(m) \/ Redrive(m) PROVE orphaned' = orphaned
    BY <1>3 DEF Publish, Redrive, ghostVars
  <1>4. ASSUME NEW w \in Workers, NEW B \in SUBSET Messages, Receive(w, B) PROVE orphaned' = orphaned
    BY <1>4 DEF Receive, ghostVars
  <1>5. QED
    BY <1>2, <1>3, <1>4 DEF Next, Kill, Tick, vars, ghostVars

(* The batch of a run that returns may be acknowledged: what is unsettled  *)
(* in it is owed by a message outside it.                                  *)
LEMMA ReturnAcks ==
  ASSUME Inv, Unstranded, NEW w \in Workers, Return(w)
  PROVE  Delivery!Ack(batch[w]) \/ UNCHANGED Delivery!vars
  <1> USE DEF Inv, TypeOK, Unstranded
  <1> DEFINE B == batch[w]
  <1>1. /\ mstate' = [m \in Messages |-> IF m \in B THEN "deleted" ELSE mstate[m]]
        /\ settled' = settled
        /\ stage[w] = "next" /\ todo[w] = {} /\ left[w] = {}
    BY DEF Return, ghostVars
  <1>2. \A m \in B : m \in Messages /\ mstate[m] = "queued"
    BY DEF Shape
  <1>3. CASE B = {}
    BY <1>1, <1>3, HiddenStep
  <1>4. ASSUME NEW m \in B, NEW f \in Work[m], <<m, f>> \notin settled
        PROVE  \E n \in Accepted \ (Acked \union B) : f \in Work[n]
    <2>1. f \in Fingerprints /\ m \in Asking(f)
      BY <1>2, <1>4, WorkType DEF Asking
    <2>2. PICK n \in Messages : f \in Work[n] /\ Owed(n, f)
      BY <1>4, <2>1 DEF NoSilentLoss, Responsible
    <2>3. n \notin B
      <3>1. CASE mstate[n] = "dlq"
        BY <1>2, <3>1
      <3>2. CASE ~Passed(w, n, f)
        BY <1>1, <3>2 DEF Passed, Busy
      <3>3. QED BY <2>2, <3>1, <3>2 DEF Owed
    <2>4. mstate[n] \in {"queued", "dlq"}
      BY <2>2 DEF Owed
    <2>5. QED BY <2>2, <2>3, <2>4 DEF Accepted, Acked
  <1>5. CASE B # {}
    <2>1. Acked' = Acked \union B
      BY <1>1, <1>2 DEF Acked
    <2>2. Accepted' = Accepted /\ Parked' = Parked
      BY <1>1, <1>2 DEF Accepted, Parked
    <2>3. B \subseteq Accepted \ (Acked \union Parked)
      BY <1>2 DEF Accepted, Acked, Parked
    <2>4. QED
      BY <1>1, <1>4, <1>5, <2>1, <2>2, <2>3 DEF Delivery!Ack, Delivery!OwedOutside, Accepted, Acked, Parked
  <1>6. QED BY <1>3, <1>5

(* A cluster that is dealt with settles every message that asks about it.  *)
LEMMA SettleSettles ==
  ASSUME Inv, NEW w \in Workers, stage[w] \in Busy, SettleCluster(w)
  PROVE  \E f \in Fingerprints : Delivery!Settle(f)
  <1>1. fp[w] \in Fingerprints
    BY WorkType DEF Inv, Shape, TypeOK
  <1>2. {<<m, fp[w]>> : m \in Asking(fp[w])} = {<<m, fp[w]>> : m \in {n \in Accepted : fp[w] \in Work[n]}}
    BY DEF Asking, Accepted
  <1>3. Delivery!Settle(fp[w])
    BY <1>2 DEF SettleCluster, queueVars, Delivery!Settle, Accepted
  <1>4. QED BY <1>1, <1>3

(* A duplicate rides on the settlement its claim stands for.               *)
LEMMA DuplicateRides ==
  ASSUME Inv, NEW w \in Workers, NEW f \in todo[w], Duplicate(w, f)
  PROVE  \/ \E m \in Messages, g \in Fingerprints : Delivery!Ride(m, g)
         \/ UNCHANGED Delivery!vars
  <1> USE DEF Inv
  <1>1. mstate' = mstate
    BY DEF Duplicate, Skip, queueVars
  <1>2. CASE holder[f] # "settled"
    BY <1>1, <1>2, HiddenStep DEF Duplicate
  <1>3. CASE holder[f] = "settled"
    <2>1. f \in Fingerprints /\ cur[w] \in batch[w] /\ cur[w] \in Messages
      BY DEF Shape, TypeOK
    <2>2. mstate[cur[w]] = "queued"
      BY <2>1 DEF Shape
    <2>3. PICK n \in Asking(f) : <<n, f>> \in settled
      BY <1>3, <2>1 DEF SettledStands
    <2>4. settled' = settled \union {<<cur[w], f>>}
      BY <1>3 DEF Duplicate
    <2>5. Delivery!Ride(cur[w], f)
      BY <1>1, <2>1, <2>2, <2>3, <2>4 DEF Delivery!Ride, Asking
    <2>6. QED BY <2>1, <2>5
  <1>4. QED BY <1>2, <1>3

(* Each step of the pipeline is a step of the promise or a stutter.        *)
LEMMA RefinementStep ==
  ASSUME NoStrandingFault, Inv, Unstranded, [Next]_vars
  PROVE  [Delivery!Next]_(Delivery!vars)
  <1> DEFINE Goal == Delivery!Next \/ UNCHANGED Delivery!vars
  <1> USE DEF NoStrandingFault
  <1>1. ASSUME UNCHANGED <<mstate, settled>> PROVE Goal
    BY <1>1, HiddenStep
  <1>2. ASSUME NEW w \in Workers, stage[w] \in Busy, SettleCluster(w) PROVE Goal
    BY <1>2, SettleSettles DEF Delivery!Next
  <1>3. ASSUME NEW m \in Messages, Publish(m) PROVE Goal
    <2>1. Accepted' = Accepted \union {m} /\ Acked' = Acked /\ Parked' = Parked /\ m \notin Accepted
      BY <1>3 DEF Publish, Inv, TypeOK, Accepted, Acked, Parked
    <2>2. Delivery!Accept(m)
      BY <1>3, <2>1 DEF Publish, ghostVars, Delivery!Accept, Accepted, Acked, Parked
    <2>3. QED BY <2>2 DEF Delivery!Next
  <1>4. ASSUME NEW m \in Messages, Redrive(m) PROVE Goal
    <2>1. mstate[m] = "queued" /\ mstate' = [mstate EXCEPT ![m] = "dlq"] /\ settled' = settled
      BY <1>4 DEF Redrive, Deliverable, ghostVars
    <2>2. Parked' = Parked \union {m} /\ Acked' = Acked /\ Accepted' = Accepted
      BY <2>1 DEF Inv, TypeOK, Accepted, Acked, Parked
    <2>3. m \in Accepted \ (Acked \union Parked)
      BY <2>1 DEF Accepted, Acked, Parked
    <2>4. Delivery!Park(m)
      BY <2>1, <2>2, <2>3 DEF Delivery!Park, Accepted, Acked, Parked
    <2>5. QED BY <2>4 DEF Delivery!Next
  <1>5. ASSUME NEW w \in Workers, NEW B \in SUBSET Messages, Receive(w, B) PROVE Goal
    BY <1>1, <1>5 DEF Receive, ghostVars
  <1>6. ASSUME NEW w \in Workers, Return(w) PROVE Goal
    <2>1. batch[w] \in SUBSET Messages
      BY DEF Inv, TypeOK
    <2>2. Delivery!Ack(batch[w]) \/ UNCHANGED Delivery!vars
      BY <1>6, ReturnAcks
    <2>3. Delivery!Ack(batch[w]) => Delivery!Next
      BY <2>1 DEF Delivery!Next, Delivery!Ack
    <2>4. QED BY <2>2, <2>3
  <1>7. ASSUME NEW w \in Workers, IsNew(w) PROVE Goal
    <2>1. PICK f \in todo[w] : Claim(w, f) \/ Duplicate(w, f) \/ FailOpen(w, f)
      BY <1>7 DEF IsNew, LostReply
    <2>2. CASE Duplicate(w, f)
      BY <2>2, DuplicateRides DEF Delivery!Next
    <2>3. CASE Claim(w, f) \/ FailOpen(w, f)
      BY <1>1, <2>3 DEF Claim, FailOpen, Proceed, queueVars
    <2>4. QED BY <2>1, <2>2, <2>3
  <1>8. ASSUME NEW w \in Workers, Suppress(w) \/ SendLast(w) PROVE Goal
    BY <1>2, <1>8 DEF Suppress, SendLast, Busy
  <1>9. ASSUME NEW w \in Workers, RunStep(w), ~Return(w), ~IsNew(w), ~Suppress(w), ~SendLast(w)
        PROVE  Goal
    BY <1>1, <1>9
       DEF RunStep, Boot, BootFails, StartRecord, Analyze, Send, SendFails, Release, ReleaseFails,
           DeleteFails, queueVars, ghostVars
  <1>10. CASE Tick
    BY <1>1, <1>10 DEF Tick
  <1>11. CASE UNCHANGED vars
    BY <1>1, <1>11 DEF vars, queueVars, ghostVars
  <1>12. QED
    BY <1>3, <1>4, <1>5, <1>6, <1>7, <1>8, <1>9, <1>10, <1>11 DEF Next, Kill

(* As long as no run is killed, no release fails and no reply is lost, the *)
(* queue, worker and dedup store keep the promise of IncidentDelivery: a   *)
(* message is deleted only when each of its clusters is settled or owed by *)
(* a message outside the deleted batch.                                    *)
THEOREM PipelineDelivers ==
  ASSUME NoStrandingFault
  PROVE  Spec => DeliverySpec
  <1>1. Init => Delivery!Init /\ Unstranded
    BY DEF Init, Delivery!Init, Unstranded
  <1>2. Unstranded /\ [Next]_vars => Unstranded'
    BY UnstrandedStep
  <1>3. Inv /\ Unstranded /\ [Next]_vars => [Delivery!Next]_(Delivery!vars)
    BY RefinementStep
  <1>4. Spec => []Unstranded
    BY <1>1, <1>2, PTL DEF Spec
  <1>5. QED BY <1>1, <1>3, <1>4, Invariance, PTL DEF Spec, DeliverySpec, Delivery!Spec
=============================================================================
