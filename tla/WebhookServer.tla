---------------------------- MODULE WebhookServer ----------------------------
(***************************************************************************)
(* The self-hosted webhook: scripts/webhook-server.ts, the handler of      *)
(* packages/webhook/src/handler.ts behind its limiter, the alert queue it  *)
(* publishes to and the rollback action a Slack button triggers.           *)
(*                                                                         *)
(* A request runs from one await to the next in one step.  What a request  *)
(* carries is a record of what the handler tells apart.                    *)
(***************************************************************************)
EXTENDS LokiBuffer, Integers, FiniteSets

CONSTANTS
  Requests,      \* HTTP requests
  Inputs,        \* what a request may carry
  Environments,  \* the settings the server may run under
  MaxConcurrent, \* RATE_LIMITER.MaxConcurrent
  Nothing        \* no request body

ASSUME WebhookAssumption == MaxConcurrent \in Nat \ {0}

ASSUME InputsAssumption ==
  /\ Nothing \notin Inputs
  /\ \A in \in Inputs :
       /\ in.route \in {"probe", "alert", "slack"}
       /\ in.route = "slack" => in.body \in {"empty", "malformed", "payload"}

ASSUME WebhookLogging ==
  /\ Requests \cup {"webhook"} \subseteq Posters /\ "webhook" \notin Requests
  /\ Requests \X {"slack", "error", "truncated", "inline", "init", "event"} \subseteq Lines
  /\ <<"webhook", "sigterm">> \in Lines

VARIABLES
  env,    \* SQS_QUEUE_URL set and FIFO, and what loadConfig yields: it has
          \* succeeded at startup, and a Slack configuration has its secret
  req,    \* what each request awaits
  input,  \* what each request carries
  status, \* HTTP status of the handler's result, 0 before
  queue,  \* messages the alert queue took: [id, payload]
  window, \* deduplication ids SQS still remembers
  job,    \* the rollback handler a request started
  raced,  \* requests whose race the timer won
  told,   \* what the operator was told of a rollback
  inline, \* the pipeline run a request started without a queue
  closing \* the SIGTERM handler: "no", "close", "flush"

webhookVars == <<env, req, input, status, queue, window, job, raced, told, inline, closing>>

Handling == {"handling", "publish", "boot", "rollback", "tell", "flush"}
Unanswered == Handling \cup {"reading", "queued"}

WebhookInit ==
  /\ env \in Environments
  /\ req = [r \in Requests |-> "none"]
  /\ input = [r \in Requests |-> Nothing]
  /\ status = [r \in Requests |-> 0]
  /\ queue = {} /\ window = {}
  /\ job = [r \in Requests |-> "none"]
  /\ raced = {}
  /\ told = [r \in Requests |-> "nothing"]
  /\ inline = [r \in Requests |-> "none"]
  /\ closing = "no"

Line(r, what) == <<r, what>>

-----------------------------------------------------------------------------
(* What the handler makes of a request before it awaits anything.          *)

(* normalizePayload keeps the firing alerts.                               *)
Normalized(in) == {a \in in.alerts : a.status = "firing"}

(* A header that is no UUID is replaced by a fresh one.                    *)
CorrelationId(r) == IF input[r].header # "malformed" THEN input[r].header ELSE r

Abs(n) == IF n < 0 THEN -n ELSE n

(* verifySlackSignature: at most 300 s old, or early, and the right digest.*)
VerifySlackSignature(in) == in.signed /\ Abs(in.age) <= 300

(* The replies of _handler that need no await, 0 where it goes on.         *)
AlertReply(in) ==
  CASE in.body = "empty" -> 400
    [] in.body = "malformed" -> 400
    [] in.body = "invalid" -> 422
    [] in.body = "payload" /\ Normalized(in) = {} -> 200
    [] OTHER -> 0

SlackReply(in) ==
  CASE in.body \in {"empty", "malformed"} -> 400
    [] in.body = "payload" /\ env.notifier # "slack" -> 400
    [] in.body = "payload" /\ env.notifier = "slack" /\ ~VerifySlackSignature(in) -> 401
    [] OTHER ->
         CASE in.schema = "malformed" -> 400
           [] in.schema = "invalid" -> 422
           [] in.schema = "valid" /\ in.action # "rollback" -> 200
           [] OTHER -> 0

EarlyReply(in) ==
  CASE in.route = "probe" -> 200
    [] in.route = "alert" -> AlertReply(in)
    [] in.route = "slack" -> SlackReply(in)

(* isRollbackAuthorized; an empty list of users allows everyone.           *)
RollbackAuthorized(in) ==
  /\ env.notifier = "slack" /\ env.enabled
  /\ env.allowed = {} \/ in.user \in env.allowed

(* What MAX_SQS_MESSAGE_SIZE leaves of an alert message: long annotations  *)
(* are cut, the result is not measured again.                              *)
Truncated(size) == IF size = "long" THEN "short" ELSE size

-----------------------------------------------------------------------------
(* The HTTP server.                                                        *)

Goto(r, s) == req' = [req EXCEPT ![r] = s]

(* Until server.close, connections are taken.                              *)
Connect(r) ==
  /\ proc = "up" /\ req[r] = "none"
  /\ \E in \in Inputs : input' = [input EXCEPT ![r] = in]
  /\ Goto(r, "reading")
  /\ UNCHANGED <<proc, env, status, queue, window, job, raced, told, inline, closing, logVars>>

ReadBody(r) ==
  /\ Alive /\ req[r] = "reading"
  /\ Goto(r, "queued")
  /\ UNCHANGED <<proc, env, input, status, queue, window, job, raced, told, inline, closing,
                 logVars>>

(* readBody is awaited outside the try: a client that leaves before its    *)
(* body has arrived rejects the listener's promise, and nobody catches it. *)
BodyFails(r) ==
  /\ Alive /\ req[r] = "reading"
  /\ Ends("crashed")
  /\ UNCHANGED webhookVars

(* limiter.schedule runs the handler when a slot is free.                  *)
Schedule(r) ==
  /\ Alive /\ req[r] = "queued"
  /\ Cardinality({q \in Requests : req[q] \in Handling}) < MaxConcurrent
  /\ Goto(r, "handling")
  /\ UNCHANGED <<proc, env, input, status, queue, window, job, raced, told, inline, closing,
                 logVars>>

(* _handler settles and the handler's finally starts its flush.            *)
Settles(r, code) ==
  /\ status' = [status EXCEPT ![r] = code]
  /\ Goto(r, "flush")

(* What the early replies to a Slack interaction log.                      *)
SlackLogs(in) ==
  \/ env.notifier # "slack" \/ ~VerifySlackSignature(in)
  \/ in.schema = "valid" /\ in.action = "other"

(* A reply of _handler without a queue or a rollback; for Slack, loadConfig*)
(* and reinitLogger ran before all but the first two.                      *)
ReplyEarly(r) ==
  /\ Alive /\ req[r] = "handling" /\ EarlyReply(input[r]) # 0
  /\ Settles(r, EarlyReply(input[r]))
  /\ IF input[r].route = "slack" /\ input[r].body = "payload"
       THEN IF SlackLogs(input[r]) THEN ReinitLogFlush(Line(r, "slack"), r) ELSE Reinit
       ELSE Flush(r)
  /\ UNCHANGED <<proc, env, input, queue, window, job, raced, told, inline, closing>>

(* Mutant: the listener's catch logs, and leaves the response open.        *)
AnswerUnlessThrown(r) ==
  /\ Alive /\ req[r] = "flush" /\ Flushed(r) /\ status[r] # 500
  /\ Goto(r, "answered") /\ Flush(r)
  /\ UNCHANGED <<proc, env, input, status, queue, window, job, raced, told, inline, closing>>

(* The handler's flush has returned: the listener answers, logging what    *)
(* the handler threw, and flushes once more.                               *)
Answer(r) ==
  /\ Alive /\ req[r] = "flush" /\ Flushed(r)
  /\ Goto(r, "answered")
  /\ IF status[r] = 500 THEN LogAndFlush(Line(r, "error"), r) ELSE Flush(r)
  /\ UNCHANGED <<proc, env, input, status, queue, window, job, raced, told, inline, closing>>

-----------------------------------------------------------------------------
(* The alert endpoint.                                                     *)

Firing(r) == req[r] = "handling" /\ input[r].route = "alert" /\ AlertReply(input[r]) = 0

(* Mutant: the promise of sendMessage is not awaited.                      *)
PublishForgotten(r) ==
  /\ Alive /\ Firing(r) /\ env.queue # "none"
  /\ Settles(r, 200) /\ Flush(r)
  /\ UNCHANGED <<proc, env, input, queue, window, job, raced, told, inline, closing>>

(* sendMessage is under way.                                               *)
Publish(r) ==
  /\ Alive /\ Firing(r) /\ env.queue # "none"
  /\ Goto(r, "publish")
  /\ IF input[r].size # "short" THEN Log(Line(r, "truncated")) ELSE UNCHANGED logVars
  /\ UNCHANGED <<proc, env, input, status, queue, window, job, raced, told, inline, closing>>

(* What SQS does with the message: a FIFO queue takes an id it remembers   *)
(* without storing the message again, a standard queue ignores the id.     *)
Enqueue(r) ==
  IF env.queue = "fifo" /\ CorrelationId(r) \in window
    THEN UNCHANGED <<queue, window>>
    ELSE /\ queue' = queue \cup {[id |-> CorrelationId(r), payload |-> Normalized(input[r])]}
         /\ window' = IF env.queue = "fifo" THEN window \cup {CorrelationId(r)} ELSE window

(* SQS answers.  It refuses what is too large even when truncated.         *)
Published(r) ==
  /\ Alive /\ req[r] = "publish" /\ Truncated(input[r].size) = "short"
  /\ Enqueue(r)
  /\ Settles(r, 200) /\ Flush(r)
  /\ UNCHANGED <<proc, env, input, job, raced, told, inline, closing>>

(* sendMessage throws: SQS never saw the message, or its answer was lost.  *)
PublishFails(r) ==
  /\ Alive /\ req[r] = "publish"
  /\ \/ UNCHANGED <<queue, window>>
     \/ Truncated(input[r].size) = "short" /\ Enqueue(r)
  /\ Settles(r, 500) /\ Flush(r)
  /\ UNCHANGED <<proc, env, input, job, raced, told, inline, closing>>

(* The five minutes of a deduplication id are over.                        *)
WindowCloses(c) ==
  /\ c \in window
  /\ window' = window \ {c}
  /\ UNCHANGED <<proc, env, req, input, status, queue, job, raced, told, inline, closing,
                 logVars>>

(* Without a queue the handler logs the alerts, then imports and loads.    *)
BootInline(r) ==
  /\ Alive /\ Firing(r) /\ env.queue = "none"
  /\ Goto(r, "boot")
  /\ Log(Line(r, "inline"))
  /\ UNCHANGED <<proc, env, input, status, queue, window, job, raced, told, inline, closing>>

(* The pipeline then runs in this process, awaited by nobody; what fails   *)
(* before it starts is logged, and answered 200 as well.                   *)
RunInline(r) ==
  /\ Alive /\ req[r] = "boot"
  /\ \/ /\ inline' = [inline EXCEPT ![r] = "running"]
        /\ Reinit
     \/ /\ inline' = [inline EXCEPT ![r] = "failed"]
        /\ LogAndFlush(Line(r, "init"), r) \/ ReinitLogFlush(Line(r, "init"), r)
  /\ Settles(r, 200)
  /\ UNCHANGED <<proc, env, input, queue, window, job, raced, told, closing>>

InlineEnds(r) ==
  /\ Alive /\ inline[r] = "running"
  /\ \E how \in {"done", "failed"} : inline' = [inline EXCEPT ![r] = how]
  /\ UNCHANGED <<proc, env, req, input, status, queue, window, job, raced, told, closing,
                 logVars>>

-----------------------------------------------------------------------------
(* The rollback button.                                                    *)

Clicked(r) ==
  /\ req[r] = "handling" /\ input[r].route = "slack" /\ SlackReply(input[r]) = 0

(* The operator is told of a result by a POST to response_url.             *)
Tell(r, what) ==
  /\ told' = [told EXCEPT ![r] = what]
  /\ Goto(r, "tell")

DenyRollback(r) ==
  /\ Alive /\ Clicked(r)
  /\ ~RollbackAuthorized(input[r]) \/ input[r].value # "valid"
  /\ Tell(r, "denied")
  /\ ReinitAndLog(Line(r, "slack"))
  /\ UNCHANGED <<proc, env, input, status, queue, window, job, raced, inline, closing>>

(* handleRollbackAction starts the handler and races it against a timer.   *)
StartRollback(r) ==
  /\ Alive /\ Clicked(r)
  /\ RollbackAuthorized(input[r]) /\ input[r].value = "valid"
  /\ job' = [job EXCEPT ![r] = "running"]
  /\ Goto(r, "rollback")
  /\ ReinitAndLog(Line(r, "slack"))
  /\ UNCHANGED <<proc, env, input, status, queue, window, raced, told, inline, closing>>

Outcomes == {"ok", "refused", "threw"}

(* The rollback handler settles: with the race open its result is told,    *)
(* after the timeout nobody looks at it.                                   *)
RollbackEnds(r) ==
  /\ Alive /\ job[r] = "running"
  /\ \E how \in Outcomes :
       /\ job' = [job EXCEPT ![r] = how]
       /\ IF req[r] = "rollback"
            THEN /\ Tell(r, IF how = "ok" THEN "completed" ELSE "failed")
                 /\ Log(Line(r, "event"))
            ELSE UNCHANGED <<told, req, logVars>>
  /\ UNCHANGED <<proc, env, input, status, queue, window, raced, inline, closing>>

(* Mutant: the symbol of the timer is taken for the handler's result.      *)
TimeoutTakenForResult(r) ==
  /\ Alive /\ req[r] = "rollback" /\ job[r] = "running"
  /\ raced' = raced \cup {r}
  /\ Tell(r, "completed")
  /\ Log(Line(r, "event"))
  /\ UNCHANGED <<proc, env, input, status, queue, window, job, inline, closing>>

(* HTTP_TIMEOUT_MS.RollbackHandler has passed first.                       *)
RollbackTimesOut(r) ==
  /\ Alive /\ req[r] = "rollback" /\ job[r] = "running"
  /\ raced' = raced \cup {r}
  /\ Tell(r, "failed")
  /\ Log(Line(r, "event"))
  /\ UNCHANGED <<proc, env, input, status, queue, window, job, inline, closing>>

(* sendSlackEphemeral returns whether or not the message arrived.          *)
ReplyToClick(r) ==
  /\ Alive /\ req[r] = "tell"
  /\ \E arrived \in BOOLEAN :
       told' = IF arrived THEN told ELSE [told EXCEPT ![r] = "nothing"]
  /\ Settles(r, 200) /\ Flush(r)
  /\ UNCHANGED <<proc, env, input, queue, window, job, raced, inline, closing>>

-----------------------------------------------------------------------------
(* SIGTERM: server.close, then a flush and exit.                           *)

WebhookSigterm ==
  /\ proc = "up"
  /\ proc' = "stopping" /\ closing' = "close"
  /\ Log(Line("webhook", "sigterm"))
  /\ UNCHANGED <<env, req, input, status, queue, window, job, raced, told, inline>>

(* Mutant: the flush does not wait for the callback of server.close.       *)
ServerClosedAtOnce ==
  /\ proc = "stopping" /\ closing = "close"
  /\ closing' = "flush" /\ Flush("webhook")
  /\ UNCHANGED <<proc, env, req, input, status, queue, window, job, raced, told, inline>>

(* Every connection has its answer: the callback of server.close.          *)
ServerClosed ==
  /\ proc = "stopping" /\ closing = "close"
  /\ \A r \in Requests : req[r] \notin Unanswered
  /\ closing' = "flush" /\ Flush("webhook")
  /\ UNCHANGED <<proc, env, req, input, status, queue, window, job, raced, told, inline>>

WebhookExit ==
  /\ proc = "stopping" /\ closing = "flush" /\ Flushed("webhook")
  /\ Ends("exited")
  /\ UNCHANGED webhookVars

WebhookStep ==
  \/ \E r \in Requests :
       \/ Schedule(r) \/ ReplyEarly(r) \/ Answer(r)
       \/ Publish(r) \/ Published(r) \/ PublishFails(r) \/ BootInline(r) \/ RunInline(r)
       \/ DenyRollback(r) \/ StartRollback(r) \/ RollbackTimesOut(r) \/ ReplyToClick(r)
       \/ ReadBody(r) \/ BodyFails(r)
  \/ ServerClosed \/ WebhookExit

WebhookNext ==
  \/ WebhookStep \/ WebhookSigterm
  \/ \E r \in Requests : Connect(r) \/ RollbackEnds(r) \/ InlineEnds(r)
  \/ \E c \in window : WindowCloses(c)

-----------------------------------------------------------------------------
WebhookTypeOK ==
  /\ env \in Environments
  /\ req \in [Requests -> Unanswered \cup {"none", "answered"}]
  /\ input \in [Requests -> Inputs \cup {Nothing}]
  /\ status \in [Requests -> {0, 200, 400, 401, 422, 500}]
  /\ job \in [Requests -> Outcomes \cup {"none", "running"}]
  /\ raced \subseteq Requests
  /\ told \in [Requests -> {"nothing", "denied", "completed", "failed"}]
  /\ inline \in [Requests -> {"none", "running", "done", "failed"}]
  /\ closing \in {"no", "close", "flush"}

(* A 200 for firing alerts says the queue holds them, whatever was lost,   *)
(* truncated or retried: under the caller's id there is a message, and it  *)
(* is this one unless another request used the same id for other alerts.   *)
AcceptedIsQueued ==
  \A r \in Requests :
    ( /\ input[r] # Nothing /\ input[r].route = "alert"
      /\ status[r] = 200 /\ Normalized(input[r]) # {} /\ env.queue # "none" ) =>
    \E q \in queue :
      /\ q.id = CorrelationId(r)
      /\ \/ q.payload = Normalized(input[r])
         \/ \E s \in Requests \ {r} :
              /\ input[s] # Nothing /\ input[s].route = "alert"
              /\ CorrelationId(s) = q.id /\ q.payload = Normalized(input[s])

(* An operator is told "completed" only of a rollback that did complete,   *)
(* and "failed" of one that completed only if the timer had won the race;  *)
(* one that was denied, or not signed, started nothing.                    *)
RollbackToldTruly ==
  \A r \in Requests :
    /\ told[r] = "completed" => job[r] = "ok"
    /\ told[r] = "failed" /\ job[r] = "ok" => r \in raced
    /\ told[r] = "denied" => job[r] = "none"
    /\ job[r] # "none" => status[r] \in {0, 200} /\ input[r].signed /\ RollbackAuthorized(input[r])

(* "Graceful SIGTERM: drains in-flight requests before exit"               *)
(* (webhook-server.ts:7), the answer of each included.                     *)
RequestsDrain == proc = "exited" => \A r \in Requests : req[r] \notin Unanswered
=============================================================================
