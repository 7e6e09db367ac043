----------------------------- MODULE WorkerServer -----------------------------
(***************************************************************************)
(* The self-hosted worker: scripts/worker-server.ts polls the alert queue  *)
(* on an interval, processBatch (scripts/worker-batch.ts) hands what it    *)
(* received to the worker's handler and deletes it afterwards.             *)
(*                                                                         *)
(* The interval does not wait for the poll before it, so that polls        *)
(* overlap; currentBatch holds the promise of the poll started last, or    *)
(* null once any poll has resolved.  Each message is one alert cluster:    *)
(* the handler claims it in the deduplication store before announcing it.  *)
(* The store is shared and answers; IncidentPipeline has its failures and  *)
(* the expiry of claims.                                                   *)
(* Log lines that report progress are left out, those that report a failure*)
(* or a signal and one for each handled event are not.                     *)
(***************************************************************************)
EXTENDS LokiBuffer, FiniteSets

CONSTANTS
  Polls,     \* calls of poll() that reach processBatch
  Messages,  \* messages of the alert queue
  Parseable, \* those whose body the handler's parser accepts
  BatchSize, \* MaxNumberOfMessages
  MaxStarts, \* bound: how often the process is started
  Sigterms,  \* bound: the SIGTERMs one process may get
  None       \* no promise, no poll

ASSUME WorkerAssumption ==
  /\ Parseable \subseteq Messages
  /\ BatchSize \in Nat \ {0} /\ MaxStarts \in Nat \ {0}
  /\ None \notin Polls \cup Messages /\ {"free", "done"} \cap Polls = {}
  /\ Messages \cap Polls = {} /\ Sigterms \cap (Polls \cup Messages) = {}

ASSUME WorkerLogging ==
  /\ Polls \cup Sigterms \subseteq Posters
  /\ Polls \X {"pollError", "event", "error"} \subseteq Lines
  /\ (Messages \X Polls) \cup (Sigterms \X (1..MaxStarts)) \subseteq Lines

VARIABLES
  starts,       \* how often the process was started
  mstate,       \* "visible", "hidden" or "deleted"
  poll,         \* what each poll awaits
  batch,        \* the messages a poll received
  left,         \* those the handler's loop has not reached
  cur,          \* the message a poll's handler announces, None otherwise
  claim,        \* the claim on a message's cluster: "free", a poll, "done"
  useCase,      \* the handler's module has its use case
  currentBatch, \* a poll, or None for null
  awaited,      \* what a run of the SIGTERM handler read from currentBatch
  sigterm,      \* the runs of the SIGTERM handler: "no", "await", "flush"
  \* History variables: they appear in no guard.
  announced,    \* messages whose cluster reached the notifier
  excused,      \* messages whose claim its holder left without announcing
                \* them, or that were skipped while their holder still ran
  overlapped,   \* polls during which another one started or resolved
  cut           \* polls whose handler ran when the process ended

workerVars == <<starts, mstate, poll, batch, left, cur, claim, useCase,
                currentBatch, awaited, sigterm, announced, excused, overlapped, cut>>

WorkerInit ==
  /\ starts = 1
  /\ mstate = [m \in Messages |-> "visible"]
  /\ poll = [p \in Polls |-> "none"]
  /\ batch = [p \in Polls |-> {}]
  /\ left = [p \in Polls |-> {}]
  /\ cur = [p \in Polls |-> None]
  /\ claim = [m \in Messages |-> "free"]
  /\ useCase = FALSE /\ currentBatch = None
  /\ awaited = [g \in Sigterms |-> None] /\ sigterm = [g \in Sigterms |-> "no"]
  /\ announced = {} /\ excused = {} /\ overlapped = {} /\ cut = {}

Running == {p \in Polls : poll[p] \in {"receive", "boot", "handle", "flush", "threw", "delete",
                                   "last"}}
Handlers == {p \in Polls : poll[p] \in {"boot", "handle"}}

Await(p, s) == poll' = [poll EXCEPT ![p] = s]

-----------------------------------------------------------------------------
(* One poll.                                                               *)

(* Calls of poll() are alike: any one not made yet is the next.            *)
NextPoll == CHOOSE p \in Polls : poll[p] = "none"

(* Mutant: the promise of the poll is awaited but not kept.                *)
PollNotKept(p) ==
  /\ proc = "up" /\ poll[p] = "none" /\ p = NextPoll
  /\ Await(p, "receive")
  /\ overlapped' = overlapped \cup Running
  /\ UNCHANGED <<proc, starts, mstate, batch, left, cur, claim, useCase, currentBatch,
                 awaited, sigterm, announced, excused, cut, logVars>>

(* The first poll, or the interval's callback; once stopping is set it     *)
(* returns.                                                                *)
Poll(p) ==
  /\ proc = "up" /\ poll[p] = "none" /\ p = NextPoll
  /\ Await(p, "receive")
  /\ currentBatch' = p
  /\ overlapped' = overlapped \cup Running
  /\ UNCHANGED <<proc, starts, mstate, batch, left, cur, claim, useCase, awaited, sigterm,
                 announced, excused, cut, logVars>>

(* processBatch resolves: its poll sets currentBatch to null, whatever     *)
(* poll it belongs to by then.                                             *)
Resolves(p) ==
  /\ Await(p, "resolved")
  /\ currentBatch' = None
  /\ overlapped' = overlapped \cup (Running \ {p})

Hide(B) == mstate' = [m \in Messages |-> IF m \in B THEN "hidden" ELSE mstate[m]]

Receive(p) ==
  /\ Alive /\ poll[p] = "receive"
  /\ \E B \in SUBSET {m \in Messages : mstate[m] = "visible"} :
       /\ B # {} /\ Cardinality(B) <= BatchSize
       /\ Hide(B)
       /\ batch' = [batch EXCEPT ![p] = B]
       /\ left' = [left EXCEPT ![p] = B]
  /\ Await(p, IF useCase THEN "handle" ELSE "boot")
  /\ UNCHANGED <<proc, starts, cur, claim, useCase, currentBatch, awaited, sigterm,
                 announced, excused, overlapped, cut, logVars>>

(* The long poll ends with no message.                                     *)
ReceiveNothing(p) ==
  /\ Alive /\ poll[p] = "receive"
  /\ Resolves(p)
  /\ UNCHANGED <<proc, starts, mstate, batch, left, cur, claim, useCase, awaited, sigterm,
                 announced, excused, cut, logVars>>

(* ReceiveMessage throws outside the try: the promise rejects and stays in *)
(* currentBatch.  What SQS had handed out is hidden all the same.          *)
ReceiveFails(p) ==
  /\ Alive /\ poll[p] = "receive"
  /\ \E B \in SUBSET {m \in Messages : mstate[m] = "visible"} :
       Cardinality(B) <= BatchSize /\ Hide(B)
  /\ Await(p, "rejected")
  /\ Log(<<p, "pollError">>)
  /\ UNCHANGED <<proc, starts, batch, left, cur, claim, useCase, currentBatch, awaited,
                 sigterm, announced, excused, overlapped, cut>>

-----------------------------------------------------------------------------
(* The handler: the use case of the process, built by the first call.      *)

(* The handler throws, and flushes in its finally.                         *)
Throws(p) ==
  /\ Await(p, "threw")
  /\ left' = [left EXCEPT ![p] = {}]

(* loadConfig has answered: reinitLogger empties the buffer, whoever wrote *)
(* to it, and the stores and clients are built.  Every call that found no  *)
(* use case comes here, those that overlap included.                       *)
Boot(p) ==
  /\ Alive /\ poll[p] = "boot"
  /\ Await(p, "handle")
  /\ useCase' = TRUE
  /\ Reinit
  /\ UNCHANGED <<proc, starts, mstate, batch, left, cur, claim, currentBatch, awaited,
                 sigterm, announced, excused, overlapped, cut>>

(* loadConfig throws, or what is built after reinitLogger does.            *)
BootFails(p) ==
  /\ Alive /\ poll[p] = "boot"
  /\ Throws(p)
  /\ LogAndFlush(<<p, "event">>, p) \/ ReinitLogFlush(<<p, "event">>, p)
  /\ UNCHANGED <<proc, starts, mstate, batch, cur, claim, useCase, currentBatch, awaited,
                 sigterm, announced, excused, overlapped, cut>>

-----------------------------------------------------------------------------
(* The handler's loop over the records.                                    *)

AtRecord(p) == poll[p] = "handle" /\ cur[p] = None

Holder(m) == claim[m] \in Polls /\ poll[claim[m]] = "handle"

(* A cluster whose claim someone holds is skipped; the message is deleted  *)
(* with its batch.                                                         *)
Skip(p) ==
  /\ Alive /\ AtRecord(p)
  /\ \E m \in left[p] :
       /\ m \in Parseable /\ claim[m] # "free"
       /\ left' = [left EXCEPT ![p] = left[p] \ {m}]
       /\ excused' = IF Holder(m) THEN excused \cup {m} ELSE excused
  /\ UNCHANGED <<proc, starts, mstate, poll, batch, cur, claim, useCase, currentBatch,
                 awaited, sigterm, announced, overlapped, cut, logVars>>

(* So is, with a line, a body that does not parse.                         *)
SkipInvalid(p) ==
  /\ Alive /\ AtRecord(p)
  /\ \E m \in left[p] :
       /\ m \notin Parseable
       /\ left' = [left EXCEPT ![p] = left[p] \ {m}]
       /\ Log(<<m, p>>)
  /\ UNCHANGED <<proc, starts, mstate, poll, batch, cur, claim, useCase, currentBatch,
                 awaited, sigterm, announced, excused, overlapped, cut>>

Claim(p) ==
  /\ Alive /\ AtRecord(p)
  /\ \E m \in left[p] :
       /\ m \in Parseable /\ claim[m] = "free"
       /\ left' = [left EXCEPT ![p] = left[p] \ {m}]
       /\ cur' = [cur EXCEPT ![p] = m]
       /\ claim' = [claim EXCEPT ![m] = p]
  /\ UNCHANGED <<proc, starts, mstate, poll, batch, useCase, currentBatch, awaited,
                 sigterm, announced, excused, overlapped, cut, logVars>>

(* The notifier took the announcement.                                     *)
Announce(p) ==
  /\ Alive /\ poll[p] = "handle" /\ cur[p] # None
  /\ announced' = announced \cup {cur[p]}
  /\ claim' = [claim EXCEPT ![cur[p]] = "done"]
  /\ cur' = [cur EXCEPT ![p] = None]
  /\ UNCHANGED <<proc, starts, mstate, poll, batch, left, useCase, currentBatch, awaited,
                 sigterm, excused, overlapped, cut, logVars>>

(* It did not: the claim is released and execute throws.                   *)
AnnounceFails(p) ==
  /\ Alive /\ poll[p] = "handle" /\ cur[p] # None
  /\ claim' = [claim EXCEPT ![cur[p]] = "free"]
  /\ cur' = [cur EXCEPT ![p] = None]
  /\ Throws(p)
  /\ LogAndFlush(<<p, "event">>, p)
  /\ UNCHANGED <<proc, starts, mstate, batch, useCase, currentBatch, awaited, sigterm,
                 announced, excused, overlapped, cut>>

(* The loop is done.                                                       *)
Handled(p) ==
  /\ Alive /\ AtRecord(p) /\ left[p] = {}
  /\ Await(p, "flush")
  /\ LogAndFlush(<<p, "event">>, p)
  /\ UNCHANGED <<proc, starts, mstate, batch, left, cur, claim, useCase, currentBatch,
                 awaited, sigterm, announced, excused, overlapped, cut>>

-----------------------------------------------------------------------------
(* After the handler.                                                      *)

(* Mutant: the delete moved to the finally block.                          *)
DeleteAfterFailure(p) ==
  /\ Alive /\ poll[p] = "threw" /\ Flushed(p)
  /\ Await(p, "delete")
  /\ UNCHANGED <<proc, starts, mstate, batch, left, cur, claim, useCase, currentBatch,
                 awaited, sigterm, announced, excused, overlapped, cut, logVars>>

(* The handler's flush has returned.  What it threw is logged, and nothing *)
(* is deleted; the finally of processBatch flushes.                        *)
BatchFailed(p) ==
  /\ Alive /\ poll[p] = "threw" /\ Flushed(p)
  /\ Await(p, "last")
  /\ batch' = [batch EXCEPT ![p] = {}]
  /\ LogAndFlush(<<p, "error">>, p)
  /\ UNCHANGED <<proc, starts, mstate, left, cur, claim, useCase, currentBatch, awaited,
                 sigterm, announced, excused, overlapped, cut>>

StartDelete(p) ==
  /\ Alive /\ poll[p] = "flush" /\ Flushed(p)
  /\ Await(p, "delete")
  /\ UNCHANGED <<proc, starts, mstate, batch, left, cur, claim, useCase, currentBatch,
                 awaited, sigterm, announced, excused, overlapped, cut, logVars>>

(* DeleteMessageBatch answers, or throws: in both cases SQS has deleted    *)
(* some entries, and those it reports as failed are not looked at.         *)
Delete(p) ==
  /\ Alive /\ poll[p] = "delete"
  /\ \E D \in SUBSET batch[p] :
       mstate' = [m \in Messages |-> IF m \in D THEN "deleted" ELSE mstate[m]]
  /\ batch' = [batch EXCEPT ![p] = {}]
  /\ Await(p, "last")
  /\ LogAndFlush(<<p, "error">>, p) \/ Flush(p)
  /\ UNCHANGED <<proc, starts, left, cur, claim, useCase, currentBatch, awaited, sigterm,
                 announced, excused, overlapped, cut>>

PollEnds(p) ==
  /\ Alive /\ poll[p] = "last" /\ Flushed(p)
  /\ Resolves(p)
  /\ UNCHANGED <<proc, starts, mstate, batch, left, cur, claim, useCase, awaited, sigterm,
                 announced, excused, cut, logVars>>

(* The 20 s of VisibilityTimeout are over, whoever still handles it.       *)
Reappears(m) ==
  /\ mstate[m] = "hidden"
  /\ mstate' = [mstate EXCEPT ![m] = "visible"]
  /\ UNCHANGED <<proc, starts, poll, batch, left, cur, claim, useCase, currentBatch,
                 awaited, sigterm, announced, excused, overlapped, cut, logVars>>

-----------------------------------------------------------------------------
(* SIGTERM, and the restart after it.                                      *)

(* A SIGTERM runs the handler once more, whatever the others wait for.     *)
WorkerSigterm(g) ==
  /\ Alive /\ sigterm[g] = "no" /\ g = (CHOOSE h \in Sigterms : sigterm[h] = "no")
  /\ proc' = "stopping"
  /\ awaited' = [awaited EXCEPT ![g] = currentBatch]
  /\ sigterm' = [sigterm EXCEPT ![g] = "await"]
  /\ Log(<<g, starts>>)
  /\ UNCHANGED <<starts, mstate, poll, batch, left, cur, claim, useCase, currentBatch,
                 announced, excused, overlapped, cut>>

(* The awaited promise has resolved, or currentBatch was null.             *)
Drained(g) ==
  /\ Alive /\ sigterm[g] = "await"
  /\ awaited[g] \in Polls => poll[awaited[g]] = "resolved"
  /\ sigterm' = [sigterm EXCEPT ![g] = "flush"]
  /\ Flush(g)
  /\ UNCHANGED <<proc, starts, mstate, poll, batch, left, cur, claim, useCase,
                 currentBatch, awaited, announced, excused, overlapped, cut>>

Down(how) ==
  /\ Ends(how)
  /\ cut' = cut \cup Handlers
  /\ excused' = excused \cup {m \in Messages : claim[m] \in Polls}
  /\ UNCHANGED <<starts, mstate, poll, batch, left, cur, claim, useCase, currentBatch,
                 awaited, sigterm, announced, overlapped>>

WorkerExit(g) ==
  /\ Alive /\ sigterm[g] = "flush" /\ Flushed(g)
  /\ Down("exited")

(* The awaited promise has rejected: an unhandled rejection ends Node.     *)
AwaitRejects(g) ==
  /\ Alive /\ sigterm[g] = "await"
  /\ awaited[g] \in Polls /\ poll[awaited[g]] = "rejected"
  /\ Down("crashed")

Restart ==
  /\ ~Alive /\ starts < MaxStarts
  /\ proc' = "up" /\ starts' = starts + 1
  /\ poll' = [p \in Polls |-> IF p \in Running THEN "gone" ELSE poll[p]]
  /\ cur' = [p \in Polls |-> None]
  /\ useCase' = FALSE /\ currentBatch' = None
  /\ awaited' = [g \in Sigterms |-> None] /\ sigterm' = [g \in Sigterms |-> "no"]
  /\ UNCHANGED <<mstate, batch, left, claim, announced, excused, overlapped, cut, logVars>>

PollStep(p) ==
  \/ Receive(p) \/ ReceiveNothing(p) \/ ReceiveFails(p)
  \/ Boot(p) \/ BootFails(p)
  \/ Skip(p) \/ SkipInvalid(p) \/ Claim(p) \/ Announce(p) \/ AnnounceFails(p) \/ Handled(p)
  \/ BatchFailed(p) \/ StartDelete(p) \/ Delete(p) \/ PollEnds(p)

WorkerStep ==
  \/ \E p \in Polls : PollStep(p)
  \/ \E g \in Sigterms : Drained(g) \/ WorkerExit(g) \/ AwaitRejects(g)

WorkerNext ==
  \/ WorkerStep \/ Restart
  \/ \E g \in Sigterms : WorkerSigterm(g)
  \/ \E p \in Polls : Poll(p)
  \/ \E m \in Messages : Reappears(m)

-----------------------------------------------------------------------------
WorkerTypeOK ==
  /\ starts \in 1..MaxStarts
  /\ mstate \in [Messages -> {"visible", "hidden", "deleted"}]
  /\ poll \in [Polls -> {"none", "receive", "boot", "handle", "flush", "threw", "delete", "last",
                         "resolved", "rejected", "gone"}]
  /\ batch \in [Polls -> SUBSET Messages] /\ left \in [Polls -> SUBSET Messages]
  /\ cur \in [Polls -> Messages \cup {None}]
  /\ claim \in [Messages -> Polls \cup {"free", "done"}]
  /\ useCase \in BOOLEAN /\ currentBatch \in Polls \cup {None}
  /\ awaited \in [Sigterms -> Polls \cup {None}]
  /\ sigterm \in [Sigterms -> {"no", "await", "flush"}]

(* "deletes messages only on success" (worker-server.ts:7): a deleted      *)
(* message was announced, or its claim excused it: a poll skipped it while *)
(* the holder of the claim was still at work, or died with the process.    *)
DeletedWasAnnounced ==
  \A m \in Parseable : mstate[m] = "deleted" => m \in announced \cup excused

(* SIGTERM ends a handler at work only if, while it ran, another poll had   *)
(* taken its place in currentBatch or emptied it.                          *)
CutOnlyWhenOverlapped == cut \subseteq overlapped

(* "drains on SIGTERM" (worker-server.ts:7): no handler is at work when    *)
(* the process exits.                                                      *)
DrainsBeforeExit == proc = "exited" => cut = {}
=============================================================================
