--------------------------- MODULE SelfHostedProofs ---------------------------
(***************************************************************************)
(* The safety of the three self-hosted processes: the inductive invariant  *)
(* of the ingest runner, and the theorems about whichever of the processes *)
(* a behaviour is one of.  The variables of the other two stay as they     *)
(* were at the start, which satisfies their properties.                    *)
(***************************************************************************)
EXTENDS SelfHosted, WebhookServerProofs

-----------------------------------------------------------------------------
(* The worker server: what a poll has dealt with, whose claim is whose,    *)
(* which poll SIGTERM will wait for, and which lines were written.         *)

(* The holder of a claim is at work on it, or the claim has its excuse.    *)
ClaimsHeld ==
  /\ \A p \in Polls : cur[p] # None => poll[p] = "handle"
  /\ \A m \in Messages :
       /\ claim[m] = "done" => m \in announced
       /\ claim[m] \in Polls =>
            \/ Alive /\ poll[claim[m]] = "handle" /\ cur[claim[m]] = m
            \/ m \in excused

(* What a poll has behind it was announced or is excused.                  *)
BehindIsSettled ==
  \A p \in Polls : \A m \in batch[p] \cap Parseable :
    /\ poll[p] = "boot" => m \in left[p]
    /\ poll[p] = "handle" => m \in left[p] \cup {cur[p]} \cup announced \cup excused
    /\ poll[p] \in {"flush", "delete"} => m \in announced \cup excused

(* A poll that none overlapped is the one currentBatch, and then every     *)
(* SIGTERM, refers to.                                                     *)
LoneIsKept ==
  /\ proc = "up" => \A g \in Sigterms : sigterm[g] = "no"
  /\ Alive => Running \subseteq overlapped \cup {currentBatch}
  /\ \A g \in Sigterms :
       /\ Alive /\ sigterm[g] = "await" => Running \subseteq overlapped \cup {awaited[g]}
       /\ Alive /\ sigterm[g] = "flush" => Running \subseteq overlapped

(* Each line is written once, and a poster awaits at most one push.        *)
WorkerLogs ==
  /\ \A p \in Polls :
       /\ <<p, "pollError">> \in written => poll[p] \notin {"none", "receive"}
       /\ <<p, "event">> \in written => poll[p] \notin {"none", "receive", "boot", "handle"}
       /\ <<p, "error">> \in written =>
            poll[p] \notin {"none", "receive", "boot", "handle", "flush", "threw", "delete"}
       /\ \A m \in Messages :
            <<m, p>> \in written => poll[p] \notin {"none", "receive"} /\ m \notin left[p]
       /\ poll[p] \in {"none", "receive", "boot", "handle", "delete"} => posts[p] = {}
  /\ \A g \in Sigterms :
       /\ \A n \in 1..MaxStarts :
            <<g, n>> \in written => n <= starts /\ (n = starts => sigterm[g] # "no")
       /\ posts[g] # {} => Alive /\ sigterm[g] = "flush"

WorkerInv ==
  /\ WorkerTypeOK /\ ClaimsHeld /\ BehindIsSettled /\ DeletedWasAnnounced
  /\ LoneIsKept /\ CutOnlyWhenOverlapped /\ WorkerLogs

LEMMA WorkerInitTypes ==
  ASSUME WorkerInit
  PROVE  WorkerTypeOK
<1> USE WorkerAssumption DEF WorkerInit
<1>1. awaited \in [Sigterms -> Polls \cup {None}] /\ sigterm \in [Sigterms -> {"no", "await", "flush"}]
  OBVIOUS
<1>2. claim \in [Messages -> Polls \cup {"free", "done"}] /\ cur \in [Polls -> Messages \cup {None}]
  OBVIOUS
<1>3. batch \in [Polls -> SUBSET Messages] /\ left \in [Polls -> SUBSET Messages]
  OBVIOUS
<1>4. mstate \in [Messages -> {"visible", "hidden", "deleted"}]
  OBVIOUS
<1>5. poll \in [Polls -> {"none", "receive", "boot", "handle", "flush", "threw", "delete", "last",
                         "resolved", "rejected", "gone"}]
  OBVIOUS
<1>6. starts \in 1..MaxStarts /\ currentBatch \in Polls \cup {None}
  OBVIOUS
<1>7. useCase \in BOOLEAN
  BY Zenon
<1> QED
  BY <1>1, <1>2, <1>3, <1>4, <1>5, <1>6, <1>7 DEF WorkerTypeOK

LEMMA WorkerInitInv ==
  ASSUME BufferInit, WorkerInit
  PROVE  WorkerInv
<1> USE WorkerAssumption, WorkerLogging DEF BufferInit, WorkerInit
<1>1. WorkerTypeOK
  BY WorkerInitTypes
<1>2. ClaimsHeld /\ BehindIsSettled /\ DeletedWasAnnounced
  BY DEF ClaimsHeld, BehindIsSettled, DeletedWasAnnounced
<1>3. LoneIsKept /\ CutOnlyWhenOverlapped
  BY DEF LoneIsKept, CutOnlyWhenOverlapped, Running
<1>4. WorkerLogs
  BY DEF WorkerLogs
<1> QED  BY <1>1, <1>2, <1>3, <1>4 DEF WorkerInv

-----------------------------------------------------------------------------
LEMMA WorkerTypesStep ==
  ASSUME WorkerTypeOK, WorkerNext
  PROVE  WorkerTypeOK'
<1> USE WorkerAssumption DEF WorkerTypeOK
<1>1. ASSUME NEW p \in Polls, Poll(p)
      PROVE  WorkerTypeOK'
  BY <1>1 DEF Poll, Await
<1>2. ASSUME NEW p \in Polls, Receive(p)
      PROVE  WorkerTypeOK'
  BY <1>2 DEF Receive, Await, Hide
<1>3. ASSUME NEW p \in Polls, ReceiveNothing(p) \/ PollEnds(p)
      PROVE  WorkerTypeOK'
  BY <1>3 DEF ReceiveNothing, PollEnds, Resolves, Await
<1>4. ASSUME NEW p \in Polls, ReceiveFails(p)
      PROVE  WorkerTypeOK'
  BY <1>4 DEF ReceiveFails, Await, Hide
<1>5. ASSUME NEW p \in Polls, Skip(p) \/ SkipInvalid(p)
      PROVE  WorkerTypeOK'
  <2>1. PICK m \in left[p] : left' = [left EXCEPT ![p] = left[p] \ {m}]
    BY <1>5 DEF Skip, SkipInvalid
  <2>2. left' \in [Polls -> SUBSET Messages]
    BY <2>1
  <2>3. UNCHANGED <<starts, mstate, poll, batch, cur, claim, useCase, currentBatch, awaited, sigterm>>
    BY <1>5 DEF Skip, SkipInvalid
  <2> QED  BY <2>2, <2>3
<1>6. ASSUME NEW p \in Polls, Claim(p)
      PROVE  WorkerTypeOK'
  BY <1>6 DEF Claim
<1>7. ASSUME NEW p \in Polls, Announce(p)
      PROVE  WorkerTypeOK'
  BY <1>7 DEF Announce
<1>8. ASSUME NEW p \in Polls, AnnounceFails(p)
      PROVE  WorkerTypeOK'
  BY <1>8 DEF AnnounceFails, Throws, Await
<1>9. ASSUME NEW p \in Polls, Boot(p) \/ BootFails(p)
      PROVE  WorkerTypeOK'
  BY <1>9 DEF Boot, BootFails, Throws, Await
<1>10. ASSUME NEW p \in Polls, Handled(p) \/ StartDelete(p)
       PROVE  WorkerTypeOK'
  BY <1>10 DEF Handled, StartDelete, Await
<1>11. ASSUME NEW p \in Polls, BatchFailed(p)
       PROVE  WorkerTypeOK'
  BY <1>11 DEF BatchFailed, Await
<1>12. ASSUME NEW p \in Polls, Delete(p)
       PROVE  WorkerTypeOK'
  BY <1>12 DEF Delete, Await
<1>13. ASSUME NEW m \in Messages, Reappears(m)
       PROVE  WorkerTypeOK'
  BY <1>13 DEF Reappears
<1>14. ASSUME NEW g \in Sigterms, WorkerSigterm(g) \/ Drained(g)
       PROVE  WorkerTypeOK'
  BY <1>14 DEF WorkerSigterm, Drained
<1>15. ASSUME NEW g \in Sigterms, WorkerExit(g) \/ AwaitRejects(g)
       PROVE  WorkerTypeOK'
  BY <1>15 DEF WorkerExit, AwaitRejects, Down
<1>16. CASE Restart
  <2>1. /\ poll' \in [Polls -> {"none", "receive", "boot", "handle", "flush", "threw", "delete", "last",
                              "resolved", "rejected", "gone"}]
        /\ cur' \in [Polls -> Messages \cup {None}] /\ starts' \in 1..MaxStarts
    BY <1>16 DEF Restart
  <2>2. awaited' \in [Sigterms -> Polls \cup {None}] /\ sigterm' \in [Sigterms -> {"no", "await", "flush"}]
    BY <1>16 DEF Restart
  <2>3. UNCHANGED <<mstate, batch, left, claim>> /\ useCase' = FALSE /\ currentBatch' = None
    BY <1>16 DEF Restart
  <2> QED  BY <2>1, <2>2, <2>3
<1> QED
  BY <1>1, <1>2, <1>3, <1>4, <1>5, <1>6, <1>7, <1>8, <1>9, <1>10, <1>11, <1>12, <1>13,
     <1>14, <1>15, <1>16 DEF WorkerNext, WorkerStep, PollStep

-----------------------------------------------------------------------------
(* Claims, batches and deletes.                                            *)

Settling == ClaimsHeld /\ BehindIsSettled /\ DeletedWasAnnounced

LEMMA SettlingStep ==
  ASSUME WorkerInv, WorkerNext
  PROVE  Settling'
<1> USE WorkerAssumption
    DEF WorkerInv, WorkerTypeOK, Settling, ClaimsHeld, BehindIsSettled, DeletedWasAnnounced
<1>1. ASSUME NEW p \in Polls, Poll(p)
      PROVE  Settling'
  BY <1>1 DEF Poll, Await, Alive
<1>2. ASSUME NEW p \in Polls, Receive(p)
      PROVE  Settling'
  BY <1>2 DEF Receive, Await, Hide, Alive
<1>3. ASSUME NEW p \in Polls, ReceiveNothing(p) \/ PollEnds(p)
      PROVE  Settling'
  BY <1>3 DEF ReceiveNothing, PollEnds, Resolves, Await, Alive
<1>4. ASSUME NEW p \in Polls, ReceiveFails(p)
      PROVE  Settling'
  BY <1>4 DEF ReceiveFails, Await, Hide, Alive
<1>5. ASSUME NEW p \in Polls, Skip(p)
      PROVE  Settling'
  <2>1. PICK m \in left[p] :
          /\ m \in Parseable /\ claim[m] # "free"
          /\ left' = [left EXCEPT ![p] = left[p] \ {m}]
          /\ excused' = IF Holder(m) THEN excused \cup {m} ELSE excused
    BY <1>5 DEF Skip
  <2>2. m \in Parseable => m \in announced \cup excused'
    BY <2>1 DEF Holder
  <2>3. UNCHANGED <<proc, mstate, poll, batch, cur, claim, announced>> /\ excused \subseteq excused'
    BY <1>5, <2>1 DEF Skip
  <2>4. ClaimsHeld'
    BY <2>3 DEF Alive
  <2>5. poll[p] = "handle"
    BY <1>5 DEF Skip, AtRecord
  <2>6. BehindIsSettled'
    BY <2>1, <2>2, <2>3, <2>5
  <2> QED
    BY <2>3, <2>4, <2>6
<1>6. ASSUME NEW p \in Polls, Claim(p)
      PROVE  Settling'
  BY <1>6 DEF Claim, AtRecord, Alive
<1>7. ASSUME NEW p \in Polls, Announce(p)
      PROVE  Settling'
  BY <1>7 DEF Announce, Alive
<1>8. ASSUME NEW p \in Polls, AnnounceFails(p)
      PROVE  Settling'
  BY <1>8 DEF AnnounceFails, Throws, Await, Alive
<1>9. ASSUME NEW p \in Polls, Boot(p) \/ BootFails(p)
      PROVE  Settling'
  BY <1>9 DEF Boot, BootFails, Throws, Await, Alive
<1>10. ASSUME NEW p \in Polls, Handled(p) \/ StartDelete(p)
       PROVE  Settling'
  BY <1>10 DEF Handled, AtRecord, StartDelete, Await, Alive
<1>11. ASSUME NEW p \in Polls, BatchFailed(p)
       PROVE  Settling'
  BY <1>11 DEF BatchFailed, Await, Alive
<1>12. ASSUME NEW p \in Polls, Delete(p)
       PROVE  Settling'
  BY <1>12 DEF Delete, Await, Alive
<1>13. ASSUME NEW m \in Messages, Reappears(m)
       PROVE  Settling'
  BY <1>13 DEF Reappears, Alive
<1>14. ASSUME NEW g \in Sigterms, WorkerSigterm(g) \/ Drained(g)
       PROVE  Settling'
  BY <1>14 DEF WorkerSigterm, Drained, Alive
<1>15. ASSUME NEW g \in Sigterms, WorkerExit(g) \/ AwaitRejects(g)
       PROVE  Settling'
  BY <1>15 DEF WorkerExit, AwaitRejects, Down, Ends, Alive
<1>16. CASE Restart
  BY <1>16 DEF Restart, Running, Alive
<1>17. ASSUME NEW p \in Polls, SkipInvalid(p)
       PROVE  Settling'
  <2>1. PICK m \in left[p] : m \notin Parseable /\ left' = [left EXCEPT ![p] = left[p] \ {m}]
    BY <1>17 DEF SkipInvalid
  <2>2. UNCHANGED <<proc, mstate, poll, batch, cur, claim, announced, excused>>
    BY <1>17 DEF SkipInvalid
  <2> QED
    BY <2>1, <2>2 DEF Alive
<1> QED
  BY <1>1, <1>2, <1>3, <1>4, <1>5, <1>6, <1>7, <1>8, <1>9, <1>10, <1>11, <1>12, <1>13,
     <1>14, <1>15, <1>16, <1>17 DEF WorkerNext, WorkerStep, PollStep

-----------------------------------------------------------------------------
(* SIGTERM and currentBatch.                                               *)

LEMMA LoneStep ==
  ASSUME WorkerInv, WorkerNext
  PROVE  LoneIsKept' /\ CutOnlyWhenOverlapped'
<1> USE WorkerAssumption
    DEF WorkerInv, WorkerTypeOK, LoneIsKept, CutOnlyWhenOverlapped, Alive
<1>1. ASSUME NEW p \in Polls, Poll(p)
      PROVE  LoneIsKept' /\ CutOnlyWhenOverlapped'
  BY <1>1 DEF Poll, Await, Running
<1>2. ASSUME NEW p \in Polls, ReceiveNothing(p) \/ PollEnds(p)
      PROVE  LoneIsKept' /\ CutOnlyWhenOverlapped'
  BY <1>2 DEF ReceiveNothing, PollEnds, Resolves, Await, Running
<1>3. ASSUME Running' \subseteq Running,
             UNCHANGED <<proc, sigterm, overlapped, currentBatch, awaited, cut>>
      PROVE  LoneIsKept' /\ CutOnlyWhenOverlapped'
  BY <1>3
<1>4. ASSUME NEW p \in Polls,
             \/ Receive(p) \/ ReceiveFails(p) \/ Boot(p) \/ BootFails(p) \/ AnnounceFails(p)
             \/ Handled(p) \/ StartDelete(p) \/ BatchFailed(p) \/ Delete(p)
      PROVE  LoneIsKept' /\ CutOnlyWhenOverlapped'
  <2>1. poll[p] \in {"receive", "boot", "handle", "flush", "threw", "delete"}
    BY <1>4 DEF Receive, ReceiveFails, Boot, BootFails, AnnounceFails, AtRecord, Handled,
                StartDelete, BatchFailed, Delete
  <2>2. \E s \in {"boot", "handle", "rejected", "threw", "flush", "delete", "last"} : Await(p, s)
    BY <1>4 DEF Receive, ReceiveFails, Boot, BootFails, AnnounceFails, Throws, Handled,
                StartDelete, BatchFailed, Delete
  <2>3. Running' \subseteq Running
    BY <2>1, <2>2 DEF Running, Await
  <2>4. UNCHANGED <<proc, sigterm, overlapped, currentBatch, awaited, cut>>
    BY <1>4 DEF Receive, ReceiveFails, Boot, BootFails, AnnounceFails, Handled, StartDelete,
                BatchFailed, Delete
  <2> QED  BY <1>3, <2>3, <2>4
<1>5. ASSUME NEW p \in Polls, Skip(p) \/ SkipInvalid(p) \/ Claim(p) \/ Announce(p)
      PROVE  LoneIsKept' /\ CutOnlyWhenOverlapped'
  BY <1>3, <1>5 DEF Skip, SkipInvalid, Claim, Announce, Running
<1>6. ASSUME NEW m \in Messages, Reappears(m)
      PROVE  LoneIsKept' /\ CutOnlyWhenOverlapped'
  BY <1>3, <1>6 DEF Reappears, Running
<1>7. ASSUME NEW g \in Sigterms, WorkerSigterm(g)
      PROVE  LoneIsKept' /\ CutOnlyWhenOverlapped'
  BY <1>7 DEF WorkerSigterm, Running
<1>8. ASSUME NEW g \in Sigterms, Drained(g)
      PROVE  LoneIsKept' /\ CutOnlyWhenOverlapped'
  <2>1. Running \subseteq overlapped
    BY <1>8 DEF Drained, Running
  <2>2. Running' = Running
    BY <1>8 DEF Drained, Running
  <2> QED
    BY <1>8, <2>1, <2>2 DEF Drained
<1>9. ASSUME NEW g \in Sigterms, WorkerExit(g) \/ AwaitRejects(g)
      PROVE  LoneIsKept' /\ CutOnlyWhenOverlapped'
  <2>1. Handlers \subseteq overlapped
    BY <1>9 DEF WorkerExit, AwaitRejects, Running, Handlers
  <2> QED
    BY <1>9, <2>1 DEF WorkerExit, AwaitRejects, Down, Ends
<1>10. CASE Restart
  BY <1>10 DEF Restart, Running
<1> QED
  BY <1>1, <1>2, <1>4, <1>5, <1>6, <1>7, <1>8, <1>9, <1>10
     DEF WorkerNext, WorkerStep, PollStep

-----------------------------------------------------------------------------
(* The worker's log lines.                                                 *)

LEMMA WorkerLogsStep ==
  ASSUME WorkerInv, BufferInv, WorkerNext
  PROVE  WorkerLogs' /\ BufferInv'
<1> DEFINE Goal == WorkerLogs' /\ BufferInv'
<1> USE WorkerAssumption, WorkerLogging DEF WorkerInv, WorkerTypeOK, WorkerLogs
<1>0. proc \in {"up", "stopping", "exited", "crashed"} /\ posts \in [Posters -> SUBSET Lines]
  BY DEF BufferInv, BufferTypeOK
<1>1. ASSUME UNCHANGED <<proc, starts, sigterm, logVars>>, NEW p \in Polls,
             NEW s \in {"receive", "boot", "handle", "resolved"},
             Await(p, s) /\ (s = "receive" => poll[p] = "none")
                         /\ (s \in {"boot", "handle"} => poll[p] = "receive"),
             \A q \in Polls : poll[q] = "receive" \/ left'[q] = left[q]
      PROVE  Goal
  <2>1. BufferInv'
    BY <1>0, <1>1, QuietKeeps
  <2>2. WorkerLogs'
    BY <1>1 DEF Await, Alive, logVars
  <2> QED  BY <2>1, <2>2
<1>2. ASSUME NEW p \in Polls, Poll(p) \/ ReceiveNothing(p) \/ PollEnds(p)
      PROVE  Goal
  BY <1>1, <1>2 DEF Poll, ReceiveNothing, PollEnds, Resolves
<1>b. ASSUME NEW p \in Polls, Receive(p)
      PROVE  Goal
  <2>1. poll[p] = "receive" /\ \A q \in Polls \ {p} : left'[q] = left[q]
    BY <1>b DEF Receive
  <2>2. \E s \in {"boot", "handle"} : Await(p, s)
    BY <1>b DEF Receive
  <2> QED
    BY <1>1, <1>b, <2>1, <2>2 DEF Receive
<1>3. ASSUME NEW p \in Polls, ReceiveFails(p)
      PROVE  Goal
  <2>1. <<p, "pollError">> \in Lines \ written
    BY <1>3 DEF ReceiveFails
  <2>2. BufferInv'
    BY <1>0, <1>3, <2>1, LogKeeps DEF ReceiveFails
  <2>3. WorkerLogs'
    BY <1>3 DEF ReceiveFails, Await, Log, Alive
  <2> QED  BY <2>2, <2>3
<1>4. ASSUME UNCHANGED <<proc, starts, sigterm, poll, logVars>>,
             \A q \in Polls : left'[q] \subseteq left[q]
      PROVE  Goal
  <2>1. BufferInv'
    BY <1>0, <1>4, QuietKeeps
  <2> QED
    BY <1>4, <2>1 DEF Alive, logVars
<1>5. ASSUME NEW p \in Polls, Skip(p) \/ Claim(p) \/ Announce(p)
      PROVE  Goal
  BY <1>4, <1>5 DEF Skip, Claim, Announce
<1>6. ASSUME NEW m \in Messages, Reappears(m)
      PROVE  Goal
  BY <1>4, <1>6 DEF Reappears
<1>c. ASSUME NEW p \in Polls, SkipInvalid(p)
      PROVE  Goal
  <2>1. PICK m \in left[p] : /\ left' = [left EXCEPT ![p] = left[p] \ {m}]
                            /\ Log(<<m, p>>)
    BY <1>c DEF SkipInvalid
  <2>2. poll[p] = "handle" /\ UNCHANGED <<proc, starts, sigterm, poll>>
    BY <1>c DEF SkipInvalid, AtRecord
  <2>3. <<m, p>> \in Lines \ written
    BY <2>1
  <2>4. BufferInv'
    BY <1>0, <2>1, <2>2, <2>3, LogKeeps
  <2>5. WorkerLogs'
    BY <2>1, <2>2 DEF Log, Alive
  <2> QED  BY <2>4, <2>5
<1>d. ASSUME NEW p \in Polls, Boot(p)
      PROVE  Goal
  <2>1. BufferInv'
    BY <1>0, <1>d, ReinitKeeps DEF Boot
  <2>2. WorkerLogs'
    BY <1>d DEF Boot, Await, Reinit, Alive
  <2> QED  BY <2>1, <2>2
<1>7. ASSUME NEW p \in Polls, AnnounceFails(p) \/ BootFails(p) \/ Handled(p)
      PROVE  Goal
  <2>1. /\ poll[p] \in {"boot", "handle"}
        /\ LogAndFlush(<<p, "event">>, p) \/ ReinitLogFlush(<<p, "event">>, p)
        /\ \E s \in {"threw", "flush"} : Await(p, s)
        /\ UNCHANGED <<proc, starts, sigterm>>
        /\ \A q \in Polls : left'[q] \subseteq left[q]
    BY <1>7 DEF AnnounceFails, BootFails, Handled, AtRecord, Throws
  <2>2. <<p, "event">> \in Lines \ written /\ Flushed(p) /\ p \in Posters
    BY <2>1 DEF Flushed
  <2>3. BufferInv'
    BY <1>0, <2>1, <2>2, LogAndFlushKeeps, ReinitLogFlushKeeps
  <2>4. /\ written' = written \cup {<<p, "event">>}
        /\ \A q \in Posters \ {p} : posts'[q] = posts[q]
    BY <1>0, <2>1 DEF LogAndFlush, ReinitLogFlush
  <2>5. WorkerLogs'
    BY <2>1, <2>4 DEF Await, Alive
  <2> QED  BY <2>3, <2>5
<1>8. ASSUME NEW p \in Polls, BatchFailed(p)
      PROVE  Goal
  <2>1. <<p, "error">> \in Lines \ written /\ p \in Posters
    BY <1>8 DEF BatchFailed
  <2>2. BufferInv'
    BY <1>0, <1>8, <2>1, LogAndFlushKeeps DEF BatchFailed
  <2>3. WorkerLogs'
    BY <1>0, <1>8 DEF BatchFailed, Await, LogAndFlush, Alive
  <2> QED  BY <2>2, <2>3
<1>9. ASSUME NEW p \in Polls, StartDelete(p)
      PROVE  Goal
  <2>1. BufferInv'
    BY <1>0, <1>9, QuietKeeps DEF StartDelete
  <2>2. WorkerLogs'
    BY <1>9 DEF StartDelete, Flushed, Await, Alive, logVars
  <2> QED  BY <2>1, <2>2
<1>10. ASSUME NEW p \in Polls, Delete(p)
       PROVE  Goal
  <2>1. <<p, "error">> \in Lines \ written /\ p \in Posters /\ Flushed(p)
    BY <1>10 DEF Delete, Flushed
  <2>2. CASE LogAndFlush(<<p, "error">>, p)
    <3>1. BufferInv'
      BY <1>0, <1>10, <2>1, <2>2, LogAndFlushKeeps DEF Delete
    <3>2. WorkerLogs'
      BY <1>0, <1>10, <2>2 DEF Delete, Await, LogAndFlush, Alive
    <3> QED  BY <3>1, <3>2
  <2>3. CASE Flush(p)
    <3>1. BufferInv'
      BY <1>0, <1>10, <2>1, <2>3, FlushKeeps DEF Delete
    <3>2. WorkerLogs'
      BY <1>0, <1>10, <2>3 DEF Delete, Await, Flush, Alive
    <3> QED  BY <3>1, <3>2
  <2> QED  BY <1>10, <2>2, <2>3 DEF Delete
<1>11. ASSUME NEW g \in Sigterms, WorkerSigterm(g)
       PROVE  Goal
  <2>1. <<g, starts>> \in Lines \ written
    BY <1>11 DEF WorkerSigterm
  <2>2. BufferInv'
    BY <1>11, <2>1, LogKeeps DEF WorkerSigterm
  <2>3. WorkerLogs'
    BY <1>11 DEF WorkerSigterm, Log, Alive
  <2> QED  BY <2>2, <2>3
<1>12. ASSUME NEW g \in Sigterms, Drained(g)
       PROVE  Goal
  <2>1. g \in Posters /\ Flushed(g)
    BY <1>12 DEF Drained, Flushed
  <2>2. BufferInv'
    BY <1>0, <1>12, <2>1, FlushKeeps DEF Drained
  <2>3. WorkerLogs'
    BY <1>0, <1>12 DEF Drained, Flush, Alive
  <2> QED  BY <2>2, <2>3
<1>13. ASSUME NEW g \in Sigterms, WorkerExit(g) \/ AwaitRejects(g)
       PROVE  Goal
  <2>1. PICK how \in {"exited", "crashed"} : Down(how)
    BY <1>13 DEF WorkerExit, AwaitRejects
  <2>2. BufferInv'
    BY <2>1, EndsKeeps DEF Down
  <2>3. WorkerLogs'
    BY <2>1 DEF Down, Ends
  <2> QED  BY <2>2, <2>3
<1>14. CASE Restart
  <2>1. BufferInv'
    BY <1>14, QuietKeeps DEF Restart
  <2>2. WorkerLogs'
    BY <1>14 DEF Restart, Running, logVars
  <2> QED  BY <2>1, <2>2
<1> QED
  BY <1>2, <1>b, <1>3, <1>5, <1>6, <1>c, <1>d, <1>7, <1>8, <1>9, <1>10, <1>11, <1>12, <1>13, <1>14
     DEF WorkerNext, WorkerStep, PollStep

-----------------------------------------------------------------------------
LEMMA WorkerInvStep ==
  ASSUME WorkerInv, BufferInv, WorkerNext
  PROVE  WorkerInv' /\ BufferInv'
BY WorkerTypesStep, SettlingStep, LoneStep, WorkerLogsStep DEF WorkerInv, Settling

(* A push that ends is no step of the worker.                              *)
LEMMA WorkerPostSettles ==
  ASSUME WorkerInv, NEW q \in Posters, PostSettles(q), UNCHANGED workerVars
  PROVE  WorkerInv'
<1> USE DEF workerVars, PostSettles
<1>1. WorkerTypeOK'
  BY DEF WorkerInv, WorkerTypeOK
<1>2. ClaimsHeld' /\ BehindIsSettled' /\ DeletedWasAnnounced'
  BY DEF WorkerInv, ClaimsHeld, BehindIsSettled, DeletedWasAnnounced, Alive
<1>3. LoneIsKept' /\ CutOnlyWhenOverlapped'
  BY DEF WorkerInv, LoneIsKept, CutOnlyWhenOverlapped, Running
<1>4. WorkerLogs'
  BY WorkerLogging DEF WorkerInv, WorkerLogs, Alive
<1> QED  BY <1>1, <1>2, <1>3, <1>4 DEF WorkerInv

-----------------------------------------------------------------------------
(* The ingest runner.  A shutdown awaits every rule that is under way, and *)
(* no tick starts another one.                                             *)
RunnerShutdown ==
  /\ proc # "up" => started /\ stopped /\ due = 0
  /\ stopped => due = 0
  /\ ~started => due = 0 /\ now = Interval
  /\ \A g \in Signals :
       /\ waits[g] # "no" => proc # "up" /\ Busy \subseteq held[g]
       /\ waits[g] = "flush" => Busy = {}

(* A signal logs once, and flushes after its wait.                         *)
RunnerLogs ==
  \A g \in Signals :
    /\ <<"ingest", g>> \in written => waits[g] # "no"
    /\ waits[g] # "flush" => posts[g] = {}

RunnerHistory ==
  /\ span \in [Rules -> SUBSET Int]
  /\ seen \in [Rules -> SUBSET Int] /\ missed \in [Rules -> SUBSET Int]

RunnerInv ==
  RunnerTypeOK /\ RunnerHistory /\ RunnerShutdown /\ RunnerDrains /\ NoGapBetweenWindows
    /\ RunnerLogs

LEMMA RunnerInitInv ==
  ASSUME BufferInit, RunnerInit
  PROVE  RunnerInv
BY RunnerAssumption, RunnerLogging
   DEF BufferInit, RunnerInit, RunnerInv, RunnerTypeOK, RunnerHistory, RunnerShutdown, RunnerDrains,
       NoGapBetweenWindows, RunnerLogs, Busy

(* Types.                                                                  *)
LEMMA RunnerTypesStep ==
  ASSUME RunnerInv, RunnerNext
  PROVE  RunnerTypeOK' /\ RunnerHistory'
<1> USE RunnerAssumption DEF RunnerInv, RunnerTypeOK, RunnerHistory
<1>0. Window(now) \in SUBSET Int
  BY DEF Window
<1> DEFINE Ticked == /\ inFlight' \in [Rules -> {"idle", "query", "execute"}]
                     /\ span' \in [Rules -> SUBSET Int]
                     /\ missed' \in [Rules -> SUBSET Int]
<1>a. ASSUME Tick PROVE Ticked
  <2>1. inFlight' \in [Rules -> {"idle", "query", "execute"}]
    BY <1>a DEF Tick
  <2>2. span' \in [Rules -> SUBSET Int]
    BY <1>0, <1>a DEF Tick
  <2>3. missed' \in [Rules -> SUBSET Int]
    BY <1>0, <1>a DEF Tick
  <2> QED  BY <2>1, <2>2, <2>3
<1>1. CASE Start
  <2>1. Ticked /\ started' \in BOOLEAN /\ stopped' \in BOOLEAN
    BY <1>a, <1>1 DEF Start
  <2>2. UNCHANGED <<kind, now, waits, held, seen>> /\ due' \in Nat
    BY <1>1 DEF Start
  <2> QED  BY <2>1, <2>2
<1>2. CASE Fire
  BY <1>a, <1>2 DEF Fire
<1>3. CASE Pass
  BY <1>3 DEF Pass
<1>4. ASSUME NEW r \in Rules, QueryFails(r) \/ QueryReturns(r) \/ Executed(r)
      PROVE  RunnerTypeOK' /\ RunnerHistory'
  BY <1>4 DEF QueryFails, QueryReturns, Executed
<1>5. ASSUME NEW g \in Signals, Shutdown(g)
      PROVE  RunnerTypeOK' /\ RunnerHistory'
  <2>1. Busy \in SUBSET Rules
    BY DEF Busy
  <2> QED
    BY <1>5, <2>1 DEF Shutdown
<1>6. ASSUME NEW g \in Signals, Stopped(g) \/ RunnerExit(g)
      PROVE  RunnerTypeOK' /\ RunnerHistory'
  BY <1>6 DEF Stopped, RunnerExit, runnerVars
<1> QED
  BY <1>1, <1>2, <1>3, <1>4, <1>5, <1>6 DEF RunnerNext, RunnerStep

LEMMA RunnerShutdownStep ==
  ASSUME RunnerInv, RunnerNext
  PROVE  RunnerShutdown' /\ RunnerDrains'
<1> USE RunnerAssumption
    DEF RunnerInv, RunnerTypeOK, RunnerShutdown, RunnerDrains, Busy
<1>1. CASE Start
  BY <1>1 DEF Start, Tick
<1>2. CASE Fire
  BY <1>2 DEF Fire, Tick, Alive
<1>3. CASE Pass
  BY <1>3 DEF Pass, Alive
<1>4. ASSUME NEW r \in Rules, QueryFails(r) \/ QueryReturns(r) \/ Executed(r)
      PROVE  RunnerShutdown' /\ RunnerDrains'
  <2>1. Busy' \subseteq Busy /\ Alive /\ proc' = proc
    BY <1>4 DEF QueryFails, QueryReturns, Executed
  <2>2. UNCHANGED <<started, stopped, due, now, waits, held>>
    BY <1>4 DEF QueryFails, QueryReturns, Executed
  <2> QED
    BY <2>1, <2>2 DEF Alive
<1>5. ASSUME NEW g \in Signals, Shutdown(g)
      PROVE  RunnerShutdown' /\ RunnerDrains'
  BY <1>5 DEF Shutdown
<1>6. ASSUME NEW g \in Signals, Stopped(g)
      PROVE  RunnerShutdown' /\ RunnerDrains'
  BY <1>6 DEF Stopped, Alive
<1>7. ASSUME NEW g \in Signals, RunnerExit(g)
      PROVE  RunnerShutdown' /\ RunnerDrains'
  BY <1>7 DEF RunnerExit, Ends, runnerVars, Alive
<1> QED
  BY <1>1, <1>2, <1>3, <1>4, <1>5, <1>6, <1>7 DEF RunnerNext, RunnerStep

(* A tick starts a window where the interval said, or adds what lies in    *)
(* between to late; a rule that is busy adds the window to missed.         *)
LEMMA NoGapStep ==
  ASSUME RunnerInv, RunnerNext
  PROVE  NoGapBetweenWindows'
<1> USE RunnerAssumption
    DEF RunnerInv, RunnerTypeOK, RunnerHistory, RunnerShutdown, NoGapBetweenWindows, Busy
<1>1. CASE Start
  <2> SUFFICES ASSUME kind' = "loki", NEW r \in Rules, NEW i \in 0..(now - 1)
               PROVE  i \in seen'[r] \cup missed'[r] \cup late'
                              \cup (IF inFlight'[r] = "query" THEN span'[r] ELSE {})
    <3>1. due' - Interval - 1 = now - 1
      BY <1>1 DEF Start
    <3> QED  BY <3>1
  <2>1. kind = "loki" /\ now = Interval
    BY <1>1 DEF Start
  <2>2. i \in Window(now)
    BY <2>1 DEF Window
  <2> QED
    BY <1>1, <2>2 DEF Start, Tick
<1>2. CASE Fire
  <2> SUFFICES ASSUME kind' = "loki", NEW r \in Rules, NEW i \in 0..(now - 1)
               PROVE  i \in seen'[r] \cup missed'[r] \cup late'
                              \cup (IF inFlight'[r] = "query" THEN span'[r] ELSE {})
    <3>1. due' - Interval - 1 = now - 1
      BY <1>2 DEF Fire
    <3> QED  BY <3>1
  <2>1. kind = "loki" /\ due # 0 /\ Tick
    BY <1>2 DEF Fire
  <2>2. CASE i \in 0..(due - Interval - 1)
    <3>1. i \in seen[r] \cup missed[r] \cup late
                 \cup (IF inFlight[r] = "query" THEN span[r] ELSE {})
      BY <2>1, <2>2
    <3> QED
      BY <1>2, <2>1, <3>1 DEF Fire, Tick
  <2>3. CASE i \in (due - Interval)..(now - Interval - 1)
    BY <1>2, <2>3 DEF Fire
  <2>4. CASE i \in Window(now)
    BY <2>1, <2>4 DEF Tick
  <2> QED
    BY <2>1, <2>2, <2>3, <2>4 DEF Window
<1>3. CASE Pass
  BY <1>3 DEF Pass
<1>4. ASSUME NEW r \in Rules, QueryFails(r) \/ QueryReturns(r) \/ Executed(r)
      PROVE  NoGapBetweenWindows'
  BY <1>4 DEF QueryFails, QueryReturns, Executed
<1>5. ASSUME NEW g \in Signals, Shutdown(g) \/ Stopped(g) \/ RunnerExit(g)
      PROVE  NoGapBetweenWindows'
  BY <1>5 DEF Shutdown, Stopped, RunnerExit, runnerVars
<1> QED
  BY <1>1, <1>2, <1>3, <1>4, <1>5 DEF RunnerNext, RunnerStep

LEMMA RunnerLogsStep ==
  ASSUME RunnerInv, BufferInv, RunnerNext
  PROVE  RunnerLogs' /\ BufferInv'
<1> USE RunnerLogging DEF RunnerInv, RunnerTypeOK, RunnerLogs
<1>0. proc \in {"up", "stopping", "exited", "crashed"} /\ posts \in [Posters -> SUBSET Lines]
  BY DEF BufferInv, BufferTypeOK
<1>1. ASSUME UNCHANGED <<proc, waits, logVars>>
      PROVE  RunnerLogs' /\ BufferInv'
  BY <1>0, <1>1, QuietKeeps DEF logVars
<1>2. CASE Start \/ Fire \/ Pass
  BY <1>1, <1>2 DEF Start, Fire, Pass
<1>3. ASSUME NEW r \in Rules, QueryFails(r) \/ QueryReturns(r) \/ Executed(r)
      PROVE  RunnerLogs' /\ BufferInv'
  BY <1>1, <1>3 DEF QueryFails, QueryReturns, Executed
<1>4. ASSUME NEW g \in Signals, Shutdown(g)
      PROVE  RunnerLogs' /\ BufferInv'
  <2>1. <<"ingest", g>> \in Lines \ written
    BY <1>4 DEF Shutdown
  <2>2. BufferInv'
    BY <1>4, <2>1, LogKeeps DEF Shutdown
  <2>3. RunnerLogs'
    BY <1>4 DEF Shutdown, Log
  <2> QED  BY <2>2, <2>3
<1>5. ASSUME NEW g \in Signals, Stopped(g)
      PROVE  RunnerLogs' /\ BufferInv'
  <2>1. BufferInv'
    BY <1>0, <1>5, FlushKeeps DEF Stopped, Flushed
  <2>2. RunnerLogs'
    BY <1>0, <1>5 DEF Stopped, Flush
  <2> QED  BY <2>1, <2>2
<1>6. ASSUME NEW g \in Signals, RunnerExit(g)
      PROVE  RunnerLogs' /\ BufferInv'
  <2>1. BufferInv'
    BY <1>6, EndsKeeps DEF RunnerExit
  <2>2. RunnerLogs'
    BY <1>6 DEF RunnerExit, Ends, runnerVars
  <2> QED  BY <2>1, <2>2
<1> QED
  BY <1>2, <1>3, <1>4, <1>5, <1>6 DEF RunnerNext, RunnerStep

LEMMA RunnerInvStep ==
  ASSUME RunnerInv, BufferInv, RunnerNext
  PROVE  RunnerInv' /\ BufferInv'
BY RunnerTypesStep, RunnerShutdownStep, NoGapStep, RunnerLogsStep DEF RunnerInv

(* A push that ends is no step of the runner.                              *)
LEMMA RunnerPostSettles ==
  ASSUME RunnerInv, NEW p \in Posters, PostSettles(p), UNCHANGED runnerVars
  PROVE  RunnerInv'
BY DEF RunnerInv, RunnerTypeOK, RunnerHistory, RunnerShutdown, RunnerDrains, NoGapBetweenWindows, RunnerLogs,
       Busy, PostSettles, runnerVars

-----------------------------------------------------------------------------
(* The process of the behaviour keeps its invariant.                       *)
SelfHostedInv ==
  /\ role \in Roles /\ BufferInv
  /\ IF role = "webhook" THEN WebhookInv ELSE WebhookInit
  /\ IF role = "worker" THEN WorkerInv ELSE WorkerInit
  /\ IF role = "ingest" THEN RunnerInv ELSE RunnerInit

LEMMA BufferInitInv ==
  ASSUME BufferInit
  PROVE  BufferInv
<1>1. buffer = <<>> /\ Len(buffer) = 0 /\ Elements(buffer) = {} /\ InFlight = {}
  BY DEF BufferInit, Elements, InFlight
<1>2. BufferTypeOK
  BY <1>1, BufferAssumption DEF BufferInit, BufferTypeOK
<1>3. LinesAccountedFor
  BY <1>1 DEF BufferInit, LinesAccountedFor
<1> QED
  BY <1>1, <1>2, <1>3 DEF BufferInv, Distinct

LEMMA SelfHostedInitInv == SelfHostedInit => SelfHostedInv
BY BufferInitInv, WebhookInitInv, WorkerInitInv, RunnerInitInv
   DEF SelfHostedInit, SelfHostedInv

(* What a component satisfies that is at its start.                        *)
LEMMA IdleWebhook ==
  ASSUME WebhookInit
  PROVE  WebhookTypeOK /\ AcceptedIsQueued /\ RollbackToldTruly /\ RequestsDrain
BY DEF WebhookInit, WebhookTypeOK, AcceptedIsQueued, RollbackToldTruly, RequestsDrain,
       Unanswered, Handling

LEMMA IdleWorker ==
  ASSUME WorkerInit
  PROVE  WorkerTypeOK /\ DeletedWasAnnounced /\ CutOnlyWhenOverlapped
<1>1. mstate = [m \in Messages |-> "visible"] /\ cut = {}
  BY DEF WorkerInit
<1>2. DeletedWasAnnounced /\ CutOnlyWhenOverlapped
  BY <1>1, WorkerAssumption DEF DeletedWasAnnounced, CutOnlyWhenOverlapped
<1> QED  BY <1>2, WorkerInitTypes

LEMMA IdleRunner ==
  ASSUME RunnerInit
  PROVE  RunnerTypeOK /\ NoGapBetweenWindows /\ RunnerDrains
BY RunnerAssumption DEF RunnerInit, RunnerTypeOK, NoGapBetweenWindows, RunnerDrains, Busy

LEMMA SelfHostedInvStep == SelfHostedInv /\ [SelfHostedNext]_selfHostedVars => SelfHostedInv'
<1> SUFFICES ASSUME SelfHostedInv, [SelfHostedNext]_selfHostedVars
             PROVE  SelfHostedInv'
  OBVIOUS
<1>a. ASSUME UNCHANGED webhookVars, WebhookInit PROVE WebhookInit'
  BY <1>a DEF WebhookInit, webhookVars
<1>b. ASSUME UNCHANGED workerVars, WorkerInit PROVE WorkerInit'
  BY <1>b DEF WorkerInit, workerVars
<1>c. ASSUME UNCHANGED runnerVars, RunnerInit PROVE RunnerInit'
  BY <1>c DEF RunnerInit, runnerVars
<1>1. CASE role = "webhook" /\ WebhookNext /\ UNCHANGED <<role, workerVars, runnerVars>>
  <2>1. WebhookInv' /\ BufferInv'
    BY <1>1, WebhookInvStep DEF SelfHostedInv
  <2> QED  BY <1>1, <1>b, <1>c, <2>1 DEF SelfHostedInv
<1>2. CASE role = "worker" /\ WorkerNext /\ UNCHANGED <<role, webhookVars, runnerVars>>
  <2>1. WorkerInv' /\ BufferInv'
    BY <1>2, WorkerInvStep DEF SelfHostedInv
  <2> QED  BY <1>2, <1>a, <1>c, <2>1 DEF SelfHostedInv
<1>3. CASE role = "ingest" /\ RunnerNext /\ UNCHANGED <<role, webhookVars, workerVars>>
  <2>1. RunnerInv' /\ BufferInv'
    BY <1>3, RunnerInvStep DEF SelfHostedInv
  <2> QED  BY <1>3, <1>a, <1>b, <2>1 DEF SelfHostedInv
<1>4. ASSUME NEW p \in Posters, PostSettles(p),
             UNCHANGED <<role, webhookVars, workerVars, runnerVars>>
      PROVE  SelfHostedInv'
  <2>1. BufferInv'
    BY <1>4, PostSettlesKeeps DEF SelfHostedInv
  <2>2. role' = role /\ UNCHANGED webhookVars /\ UNCHANGED workerVars /\ UNCHANGED runnerVars
    BY <1>4
  <2>3. IF role' = "webhook" THEN WebhookInv' ELSE WebhookInit'
    BY <1>4, <1>a, <2>2, WebhookPostSettles DEF SelfHostedInv
  <2>4. IF role' = "worker" THEN WorkerInv' ELSE WorkerInit'
    BY <1>4, <1>b, <2>2, WorkerPostSettles DEF SelfHostedInv
  <2>5. IF role' = "ingest" THEN RunnerInv' ELSE RunnerInit'
    BY <1>4, <1>c, <2>2, RunnerPostSettles DEF SelfHostedInv
  <2> QED  BY <2>1, <2>2, <2>3, <2>4, <2>5 DEF SelfHostedInv
<1>5. CASE UNCHANGED selfHostedVars
  <2>1. UNCHANGED <<role, proc, logVars>> /\ UNCHANGED webhookVars /\ UNCHANGED workerVars
        /\ UNCHANGED runnerVars
    BY <1>5 DEF selfHostedVars
  <2>2. BufferInv'
    <3>1. BufferInv /\ UNCHANGED logVars
      BY <2>1 DEF SelfHostedInv
    <3>2. proc' \in {"up", "stopping", "exited", "crashed"}
      BY <2>1, <3>1 DEF BufferInv, BufferTypeOK
    <3> QED  BY <3>1, <3>2, QuietKeeps
  <2>3. ASSUME WebhookInv PROVE WebhookInv'
    <3>1. UNCHANGED <<proc, buffer, posts, written, past>> /\ UNCHANGED webhookVars
      BY <2>1 DEF logVars
    <3> USE <2>3, <3>1 DEF webhookVars
    <3>2. WebhookTypeOK' /\ RequestFacts'
      BY DEF WebhookInv, WebhookTypeOK, RequestFacts
    <3>3. RollbackFacts' /\ RollbackToldTruly'
      BY DEF WebhookInv, RollbackFacts, RollbackToldTruly, RollbackAuthorized
    <3>4. QueueOrigins' /\ AcceptedIsQueued'
      BY DEF WebhookInv, QueueOrigins, AcceptedIsQueued, CorrelationId
    <3>5. Closing' /\ RequestsDrain'
      BY DEF WebhookInv, Closing, RequestsDrain, Alive
    <3>6. WebhookLogs'
      BY DEF WebhookInv, WebhookLogs
    <3> QED  BY <3>2, <3>3, <3>4, <3>5, <3>6 DEF WebhookInv
  <2>4. WorkerInv => WorkerInv'
    BY <2>1 DEF workerVars, logVars, WorkerInv, WorkerTypeOK, ClaimsHeld, BehindIsSettled,
                DeletedWasAnnounced, LoneIsKept, CutOnlyWhenOverlapped, WorkerLogs, Alive, Running
  <2>5. RunnerInv => RunnerInv'
    BY <2>1 DEF runnerVars, logVars, RunnerInv, RunnerTypeOK, RunnerHistory, RunnerShutdown,
                RunnerDrains, NoGapBetweenWindows, RunnerLogs, Busy
  <2> QED  BY <1>a, <1>b, <1>c, <2>1, <2>2, <2>3, <2>4, <2>5 DEF SelfHostedInv
<1> QED
  BY <1>1, <1>2, <1>3, <1>4, <1>5 DEF SelfHostedNext

LEMMA SelfHostedInvariance == SelfHostedSpec => []SelfHostedInv
  BY SelfHostedInitInv, SelfHostedInvStep, PTL DEF SelfHostedSpec

-----------------------------------------------------------------------------
(* Every variable of the process that runs, and of those that do not,      *)
(* stays in its type.                                                      *)
THEOREM SelfHostedTypes == SelfHostedSpec => []SelfHostedTypeOK
<1>1. SelfHostedInv => SelfHostedTypeOK
  BY IdleWebhook, IdleWorker, IdleRunner
     DEF SelfHostedInv, SelfHostedTypeOK, BufferInv, WebhookInv, WorkerInv, RunnerInv
<1> QED  BY <1>1, SelfHostedInvariance, PTL

(* shared/logger: whichever process writes and flushes, a line is buffered,*)
(* in one push, or done with.                                              *)
THEOREM LinesAreAccountedFor == SelfHostedSpec => []LinesAccountedFor
<1>1. SelfHostedInv => LinesAccountedFor
  BY DEF SelfHostedInv, BufferInv
<1> QED  BY <1>1, SelfHostedInvariance, PTL

(* The webhook's handler: a 200 for firing alerts says the queue took a    *)
(* message under the caller's id.                                          *)
THEOREM AcceptedAreQueued == SelfHostedSpec => []AcceptedIsQueued
<1>1. SelfHostedInv => AcceptedIsQueued
  BY IdleWebhook DEF SelfHostedInv, WebhookInv
<1> QED  BY <1>1, SelfHostedInvariance, PTL

(* handleRollbackAction: what the operator is told of a rollback is true,  *)
(* or the timer had won, and only an authorized, signed click starts one.  *)
THEOREM RollbacksAreToldTruly == SelfHostedSpec => []RollbackToldTruly
<1>1. SelfHostedInv => RollbackToldTruly
  BY IdleWebhook DEF SelfHostedInv, WebhookInv
<1> QED  BY <1>1, SelfHostedInvariance, PTL

(* webhook-server.ts: the process does not exit on a request that has no   *)
(* answer yet.                                                             *)
THEOREM RequestsAreDrained == SelfHostedSpec => []RequestsDrain
<1>1. SelfHostedInv => RequestsDrain
  BY IdleWebhook DEF SelfHostedInv, WebhookInv
<1> QED  BY <1>1, SelfHostedInvariance, PTL

(* worker-batch.ts: a message is deleted when it was announced, or its     *)
(* claim excuses it, however polls overlap and messages reappear.          *)
THEOREM DeletesAreAnnounced == SelfHostedSpec => []DeletedWasAnnounced
<1>1. SelfHostedInv => DeletedWasAnnounced
  BY IdleWorker DEF SelfHostedInv, WorkerInv
<1> QED  BY <1>1, SelfHostedInvariance, PTL

(* worker-server.ts: the SIGTERM handler cuts off a batch only if another  *)
(* poll overlapped it.                                                     *)
THEOREM CutsAreOverlaps == SelfHostedSpec => []CutOnlyWhenOverlapped
<1>1. SelfHostedInv => CutOnlyWhenOverlapped
  BY IdleWorker DEF SelfHostedInv, WorkerInv
<1> QED  BY <1>1, SelfHostedInvariance, PTL

(* LokiRunner: the windows of its ticks leave out only what a failed query,*)
(* a skipped tick or a late timer does, for every interval and jitter.     *)
THEOREM WindowsAreContiguous == SelfHostedSpec => []NoGapBetweenWindows
<1>1. SelfHostedInv => NoGapBetweenWindows
  BY IdleRunner DEF SelfHostedInv, RunnerInv
<1> QED  BY <1>1, SelfHostedInvariance, PTL

(* ingest-server.ts: the process does not exit on a rule under way, also   *)
(* when both signals arrive.                                               *)
THEOREM RunnersAreDrained == SelfHostedSpec => []RunnerDrains
<1>1. SelfHostedInv => RunnerDrains
  BY IdleRunner DEF SelfHostedInv, RunnerInv
<1> QED  BY <1>1, SelfHostedInvariance, PTL
===============================================================================
