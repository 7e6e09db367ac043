-------------------------- MODULE WebhookServerProofs --------------------------
(***************************************************************************)
(* The inductive invariant of the webhook server: what is known of a       *)
(* request at each of its awaits, where the messages of the queue come     *)
(* from, what a shutdown waits for, and which lines were written; and,     *)
(* before it, what the shared log buffer keeps.                            *)
(***************************************************************************)
EXTENDS WebhookServer, SequenceTheorems, TLAPS

-----------------------------------------------------------------------------
(* What each operation of the log buffer keeps, for whoever performs it.   *)

Distinct(b) == \A i, j \in 1..Len(b) : b[i] = b[j] => i = j

(* Eviction is accounted for because no line is in the buffer twice.       *)
BufferInv == BufferTypeOK /\ LinesAccountedFor /\ Distinct(buffer)

(* The destination's write on a buffer without duplicates.                 *)
LEMMA WrittenContents ==
  ASSUME NEW b \in Seq(Lines), Len(b) <= MaxBufferEntries, Distinct(b),
         NEW l \in Lines, l \notin Elements(b)
  PROVE  /\ Written(b, l) \in Seq(Lines) /\ Len(Written(b, l)) <= MaxBufferEntries
         /\ Distinct(Written(b, l))
         /\ Elements(Written(b, l)) = (Elements(b) \ Evicted(b)) \cup {l}
         /\ Evicted(b) \subseteq Elements(b)
<1> USE BufferAssumption
<1>1. CASE Len(b) < MaxBufferEntries
  <2>1. Written(b, l) = Append(b, l) /\ Evicted(b) = {}
    BY <1>1 DEF Written, Evicted
  <2>2. /\ Append(b, l) \in Seq(Lines) /\ Len(Append(b, l)) = Len(b) + 1
        /\ \A i \in 1..Len(b) : Append(b, l)[i] = b[i]
        /\ Append(b, l)[Len(b) + 1] = l
    OBVIOUS
  <2>3. Elements(Append(b, l)) = Elements(b) \cup {l}
    BY <2>2 DEF Elements
  <2>4. Distinct(Append(b, l))
    BY <2>2 DEF Distinct, Elements
  <2> QED  BY <1>1, <2>1, <2>2, <2>3, <2>4
<1>2. CASE Len(b) >= MaxBufferEntries
  <2> DEFINE t == Tail(b)
  <2>1. Written(b, l) = Append(t, l) /\ Evicted(b) = {b[1]}
    BY <1>2 DEF Written, Evicted
  <2>2. /\ t \in Seq(Lines) /\ Len(t) = Len(b) - 1
        /\ \A i \in 1..Len(t) : t[i] = b[i + 1]
    BY <1>2
  <2> HIDE DEF t
  <2>3. /\ Append(t, l) \in Seq(Lines) /\ Len(Append(t, l)) = Len(b)
        /\ \A i \in 1..Len(t) : Append(t, l)[i] = b[i + 1]
        /\ Append(t, l)[Len(b)] = l
    BY <2>2
  <2>4. Elements(Append(t, l)) = (Elements(b) \ {b[1]}) \cup {l}
    <3>1. ASSUME NEW x \in Elements(Append(t, l))
          PROVE  x \in (Elements(b) \ {b[1]}) \cup {l}
      <4>1. PICK i \in 1..Len(b) : x = Append(t, l)[i]
        BY <2>3 DEF Elements
      <4>2. CASE i = Len(b)
        BY <4>1, <4>2, <2>3
      <4>3. CASE i < Len(b)
        BY <4>1, <4>3, <2>2, <2>3 DEF Distinct, Elements
      <4> QED  BY <4>2, <4>3
    <3>2. ASSUME NEW x \in (Elements(b) \ {b[1]}) \cup {l}
          PROVE  x \in Elements(Append(t, l))
      <4>1. CASE x = l
        BY <4>1, <1>2, <2>3 DEF Elements
      <4>2. CASE x \in Elements(b) \ {b[1]}
        <5>1. PICK i \in 1..Len(b) : x = b[i] /\ i # 1
          BY <4>2 DEF Elements
        <5>2. i - 1 \in 1..Len(t) /\ x = Append(t, l)[i - 1]
          BY <5>1, <2>2, <2>3
        <5> QED  BY <5>2, <2>2, <2>3 DEF Elements
      <4> QED  BY <4>1, <4>2
    <3> QED  BY <3>1, <3>2
  <2>5. Distinct(Append(t, l))
    <3> SUFFICES ASSUME NEW i \in 1..Len(b), NEW j \in 1..Len(b),
                        Append(t, l)[i] = Append(t, l)[j]
                 PROVE  i = j
      BY <2>3 DEF Distinct
    <3>1. CASE i < Len(b) /\ j < Len(b)
      BY <3>1, <2>2, <2>3 DEF Distinct
    <3>2. CASE i < Len(b) /\ j = Len(b)
      BY <3>2, <2>2, <2>3 DEF Elements
    <3>3. CASE i = Len(b) /\ j < Len(b)
      BY <3>3, <2>2, <2>3 DEF Elements
    <3> QED  BY <3>1, <3>2, <3>3
  <2>6. b[1] \in Elements(b)
    BY <1>2 DEF Elements
  <2> QED  BY <1>2, <2>1, <2>3, <2>4, <2>5, <2>6
<1> QED  BY <1>1, <1>2

(* A fresh line is buffered.                                               *)
LEMMA LogKeeps ==
  ASSUME BufferInv, NEW l \in Lines, l \notin written, Log(l),
         proc' \in {"up", "stopping", "exited", "crashed"}
  PROVE  BufferInv'
<1> USE DEF BufferInv, BufferTypeOK
<1>1. /\ l \notin Elements(buffer) /\ l \notin InFlight /\ l \notin past
      /\ \A p \in Posters : l \notin posts[p]
  BY DEF LinesAccountedFor, InFlight
<1>2. /\ buffer' = Written(buffer, l) /\ written' = written \cup {l}
      /\ past' = past \cup Evicted(buffer) /\ posts' = posts
  BY DEF Log
<1>3. /\ buffer' \in Seq(Lines) /\ Len(buffer') <= MaxBufferEntries /\ Distinct(buffer')
      /\ Elements(buffer') = (Elements(buffer) \ Evicted(buffer)) \cup {l}
      /\ Evicted(buffer) \subseteq Elements(buffer)
  BY <1>1, <1>2, WrittenContents
<1>4. Elements(buffer) \subseteq written
  BY DEF LinesAccountedFor
<1>5. InFlight' = InFlight
  BY <1>2 DEF InFlight
<1>6. Elements(buffer)' = Elements(buffer')
  BY DEF Elements
<1>7. LinesAccountedFor'
  BY <1>1, <1>2, <1>3, <1>5, <1>6 DEF LinesAccountedFor
<1>8. BufferTypeOK'
  BY <1>2, <1>3, <1>4
<1>9. Distinct(buffer)'
  BY <1>3 DEF Distinct
<1> QED  BY <1>7, <1>8, <1>9

(* Some lines become the push of p, which awaits none; the buffer empties. *)
LEMMA PushKeeps ==
  ASSUME BufferInv, NEW p \in Posters, posts[p] = {},
         NEW L \in SUBSET Lines,
         L \cap (InFlight \cup past) = {},
         posts' = [posts EXCEPT ![p] = L], buffer' = <<>>,
         written' = written \cup L,
         past' \in SUBSET Lines, past \subseteq past', past' \subseteq past \cup Elements(buffer),
         Elements(buffer) \subseteq past' \cup L, past' \cap L = {},
         proc' \in {"up", "stopping", "exited", "crashed"}
  PROVE  BufferInv'
<1> USE DEF BufferInv, BufferTypeOK
<1>1. InFlight' = InFlight \cup L
  BY DEF InFlight
<1>2. Elements(buffer)' = {}
  BY DEF Elements
<1>3. \A q \in Posters : posts[q] \cap L = {}
  BY DEF InFlight
<1>4. LinesAccountedFor'
  BY <1>1, <1>2, <1>3 DEF LinesAccountedFor
<1>5. buffer' \in Seq(Lines) /\ Len(buffer') <= MaxBufferEntries /\ Distinct(buffer)'
  BY BufferAssumption DEF Distinct
<1>6. BufferTypeOK'
  BY <1>5
<1> QED  BY <1>4, <1>5, <1>6

LEMMA FlushKeeps ==
  ASSUME BufferInv, NEW p \in Posters, Flushed(p), Flush(p),
         proc' \in {"up", "stopping", "exited", "crashed"}
  PROVE  BufferInv'
<1> DEFINE L == Elements(buffer)
<1>1. /\ L \in SUBSET Lines /\ L \cap (InFlight \cup past) = {}
      /\ written = written \cup L /\ past \in SUBSET Lines /\ past \cap L = {}
  BY DEF BufferInv, BufferTypeOK, LinesAccountedFor, Elements
<1>2. /\ posts' = [posts EXCEPT ![p] = L] /\ buffer' = <<>>
      /\ written' = written \cup L /\ past' = past
  BY <1>1 DEF Flush
<1>3. Elements(buffer) \subseteq past' \cup L
  OBVIOUS
<1> HIDE DEF L
<1> QED
  BY <1>1, <1>2, <1>3, PushKeeps DEF Flushed

LEMMA LogAndFlushKeeps ==
  ASSUME BufferInv, NEW p \in Posters, Flushed(p), NEW l \in Lines, l \notin written,
         LogAndFlush(l, p), proc' \in {"up", "stopping", "exited", "crashed"}
  PROVE  BufferInv'
<1>1. /\ l \notin Elements(buffer) /\ l \notin InFlight /\ l \notin past
      /\ Elements(buffer) \in SUBSET Lines /\ Elements(buffer) \subseteq written
  BY DEF BufferInv, BufferTypeOK, LinesAccountedFor, Elements
<1>2. /\ Elements(Written(buffer, l)) = (Elements(buffer) \ Evicted(buffer)) \cup {l}
      /\ Evicted(buffer) \subseteq Elements(buffer)
  BY <1>1, WrittenContents DEF BufferInv, BufferTypeOK
<1> DEFINE L == (Elements(buffer) \ Evicted(buffer)) \cup {l}
<1>3. /\ L \in SUBSET Lines /\ L \cap (InFlight \cup past) = {}
      /\ written \cup {l} = written \cup L
  BY <1>1, <1>2 DEF BufferInv, LinesAccountedFor
<1>4. /\ posts' = [posts EXCEPT ![p] = L] /\ buffer' = <<>> /\ written' = written \cup L
      /\ past' = past \cup Evicted(buffer)
  BY <1>2, <1>3 DEF LogAndFlush
<1>5. /\ past' \in SUBSET Lines /\ past \subseteq past' /\ past' \subseteq past \cup Elements(buffer)
      /\ Elements(buffer) \subseteq past' \cup L /\ past' \cap L = {}
  BY <1>1, <1>2, <1>3, <1>4 DEF BufferInv, BufferTypeOK
<1> HIDE DEF L
<1> QED
  BY <1>3, <1>4, <1>5, PushKeeps DEF Flushed

(* The buffer is emptied; then a fresh line may be written.                *)
LEMMA ReinitKeeps ==
  ASSUME BufferInv, Reinit, proc' \in {"up", "stopping", "exited", "crashed"}
  PROVE  BufferInv'
<1> USE DEF BufferInv, BufferTypeOK
<1>1. Elements(buffer) \in SUBSET Lines
  BY DEF Elements
<1>2. InFlight' = InFlight /\ Elements(buffer)' = {}
  BY DEF InFlight, Elements, Reinit
<1>3. LinesAccountedFor'
  BY <1>1, <1>2 DEF LinesAccountedFor, Reinit
<1>4. BufferTypeOK' /\ Distinct(buffer)'
  BY <1>1, BufferAssumption DEF Distinct, Reinit
<1> QED  BY <1>3, <1>4

LEMMA ReinitAndLogKeeps ==
  ASSUME BufferInv, NEW l \in Lines, l \notin written, ReinitAndLog(l),
         proc' \in {"up", "stopping", "exited", "crashed"}
  PROVE  BufferInv'
<1> USE DEF BufferInv, BufferTypeOK
<1>1. Elements(buffer) \in SUBSET Lines
  BY DEF Elements
<1>2. InFlight' = InFlight /\ Elements(buffer)' = {l}
  BY DEF InFlight, Elements, ReinitAndLog
<1>3. LinesAccountedFor'
  BY <1>1, <1>2 DEF LinesAccountedFor, ReinitAndLog
<1>4. BufferTypeOK' /\ Distinct(buffer)'
  BY <1>1, BufferAssumption DEF Distinct, ReinitAndLog
<1> QED  BY <1>3, <1>4

LEMMA ReinitLogFlushKeeps ==
  ASSUME BufferInv, NEW p \in Posters, Flushed(p), NEW l \in Lines, l \notin written,
         ReinitLogFlush(l, p), proc' \in {"up", "stopping", "exited", "crashed"}
  PROVE  BufferInv'
<1> DEFINE L == {l}
<1>1. Elements(buffer) \in SUBSET Lines /\ past \in SUBSET Lines
  BY DEF BufferInv, BufferTypeOK, Elements
<1>2. L \in SUBSET Lines /\ L \cap (InFlight \cup past \cup Elements(buffer)) = {}
  BY DEF BufferInv, LinesAccountedFor
<1>3. /\ posts' = [posts EXCEPT ![p] = L] /\ buffer' = <<>> /\ written' = written \cup L
      /\ past' = past \cup Elements(buffer)
  BY DEF ReinitLogFlush
<1>4. L \cap (InFlight \cup past) = {} /\ past' \cap L = {}
  BY <1>2, <1>3
<1> HIDE DEF L
<1> QED
  BY <1>1, <1>2, <1>3, <1>4, PushKeeps DEF Flushed

(* A push ends; the process ends; nothing happens to the buffer.           *)
LEMMA PostSettlesKeeps ==
  ASSUME BufferInv, NEW p \in Posters, PostSettles(p)
  PROVE  BufferInv'
<1> USE DEF BufferInv, BufferTypeOK
<1>1. posts[p] \subseteq InFlight /\ InFlight' = InFlight \ posts[p]
  BY DEF InFlight, PostSettles, LinesAccountedFor
<1>2. Elements(buffer)' = Elements(buffer)
  BY DEF Elements, PostSettles
<1>3. LinesAccountedFor'
  BY <1>1, <1>2 DEF LinesAccountedFor, PostSettles
<1>4. BufferTypeOK' /\ Distinct(buffer)'
  BY DEF Distinct, PostSettles
<1> QED  BY <1>3, <1>4

LEMMA EndsKeeps ==
  ASSUME BufferInv, NEW how \in {"exited", "crashed"}, Ends(how)
  PROVE  BufferInv'
<1> USE DEF BufferInv, BufferTypeOK
<1>1. Elements(buffer) \in SUBSET Lines /\ InFlight \in SUBSET Lines
  BY DEF Elements, InFlight
<1>2. InFlight' = {} /\ Elements(buffer)' = {}
  BY DEF InFlight, Elements, Ends
<1>3. LinesAccountedFor'
  BY <1>1, <1>2 DEF LinesAccountedFor, Ends
<1>4. BufferTypeOK' /\ Distinct(buffer)'
  BY <1>1, BufferAssumption DEF Distinct, Ends
<1> QED  BY <1>3, <1>4

LEMMA QuietKeeps ==
  ASSUME BufferInv, UNCHANGED logVars, proc' \in {"up", "stopping", "exited", "crashed"}
  PROVE  BufferInv'
<1>1. InFlight' = InFlight /\ Elements(buffer)' = Elements(buffer)
  BY DEF InFlight, Elements, logVars
<1> QED
  BY <1>1 DEF BufferInv, BufferTypeOK, LinesAccountedFor, Distinct, logVars

-----------------------------------------------------------------------------
(* The server.                                                             *)

Early == {"none", "reading", "queued", "handling"}

(* A request at an await has passed the checks before it.                  *)
RequestFacts ==
  \A r \in Requests :
    /\ IF req[r] = "none" THEN input[r] = Nothing ELSE input[r] \in Inputs
    /\ req[r] \notin {"flush", "answered"} => status[r] = 0
    /\ req[r] \in Early \cup {"publish", "boot"} => job[r] = "none" /\ told[r] = "nothing"
    /\ req[r] = "publish" => input[r].route = "alert" /\ env.queue # "none"
    /\ req[r] = "boot" => input[r].route = "alert" /\ env.queue = "none"
    /\ req[r] \in {"rollback", "tell"} => input[r].route = "slack"
    /\ req[r] = "rollback" => job[r] = "running" /\ told[r] = "nothing"

(* The rollback handler runs for a click that was allowed to start it; a   *)
(* failure told while it runs was the timer's.                             *)
RollbackFacts ==
  \A r \in Requests :
    /\ job[r] # "none" => req[r] \in {"rollback", "tell", "flush", "answered"}
    /\ told[r] = "failed" /\ job[r] = "running" => r \in raced

(* Each message was sent for some request, and SQS remembers an id only of *)
(* a message it took.                                                      *)
QueueOrigins ==
  /\ \A q \in queue : \E s \in Requests :
       /\ req[s] # "none" /\ input[s].route = "alert"
       /\ q.id = CorrelationId(s) /\ q.payload = Normalized(input[s])
  /\ \A c \in window : \E q \in queue : q.id = c

(* The flush before the exit comes after the last answer.                  *)
Closing ==
  /\ proc = "up" <=> closing = "no" /\ Alive
  /\ proc = "exited" => closing = "flush"
  /\ closing = "flush" => \A r \in Requests : req[r] \notin Unanswered

WebhookLogs ==
  /\ \A r \in Requests :
       /\ <<r, "slack">> \in written \/ <<r, "truncated">> \in written
            \/ <<r, "inline">> \in written => req[r] \notin Early
       /\ <<r, "init">> \in written => req[r] \in {"flush", "answered"}
       /\ <<r, "event">> \in written => req[r] \in {"tell", "flush", "answered"}
       /\ <<r, "error">> \in written => req[r] = "answered"
       /\ req[r] \notin {"flush", "answered"} => posts[r] = {}
  /\ <<"webhook", "sigterm">> \in written => proc # "up"
  /\ closing # "flush" => posts["webhook"] = {}

WebhookInv ==
  /\ WebhookTypeOK /\ RequestFacts
  /\ RollbackFacts /\ RollbackToldTruly
  /\ QueueOrigins /\ AcceptedIsQueued
  /\ Closing /\ RequestsDrain
  /\ WebhookLogs

LEMMA WebhookInitInv ==
  ASSUME BufferInit, WebhookInit
  PROVE  WebhookInv
<1> USE WebhookLogging DEF BufferInit, WebhookInit
<1>1. WebhookTypeOK
  BY DEF WebhookTypeOK
<1>2. RequestFacts /\ RollbackFacts /\ RollbackToldTruly
  BY DEF RequestFacts, RollbackFacts, RollbackToldTruly
<1>3. QueueOrigins /\ AcceptedIsQueued
  BY DEF QueueOrigins, AcceptedIsQueued
<1>4. Closing /\ RequestsDrain
  BY DEF Closing, RequestsDrain, Alive
<1>5. WebhookLogs
  BY DEF WebhookLogs
<1> QED  BY <1>1, <1>2, <1>3, <1>4, <1>5 DEF WebhookInv

-----------------------------------------------------------------------------
(* The replies without an await; firing alerts never get one of 200.       *)
LEMMA EarlyReplies ==
  ASSUME NEW in \in Inputs
  PROVE  /\ EarlyReply(in) \in {0, 200, 400, 401, 422}
         /\ in.route = "alert" /\ Normalized(in) # {} => EarlyReply(in) # 200
<1> USE InputsAssumption
<1>1. AlertReply(in) \in {0, 200, 400, 422} /\ (Normalized(in) # {} => AlertReply(in) # 200)
  BY DEF AlertReply
<1>2. SlackReply(in) \in {0, 200, 400, 401, 422}
  BY DEF SlackReply
<1>3. CASE in.route = "alert"
  BY <1>1, <1>3 DEF EarlyReply
<1>4. CASE in.route = "slack"
  BY <1>2, <1>4 DEF EarlyReply
<1>5. CASE in.route = "probe"
  BY <1>5 DEF EarlyReply
<1> QED  BY <1>3, <1>4, <1>5

(* What a click that starts a rollback has proved of itself.               *)
LEMMA ClickIsSigned ==
  ASSUME WebhookInv, NEW r \in Requests, Clicked(r), RollbackAuthorized(input[r])
  PROVE  input[r].signed
<1>1. input[r] \in Inputs /\ input[r].route = "slack" /\ SlackReply(input[r]) = 0
  BY DEF WebhookInv, RequestFacts, Clicked
<1>2. env.notifier = "slack"
  BY DEF RollbackAuthorized
<1>3. input[r].body = "payload"
  BY <1>1, InputsAssumption DEF SlackReply
<1>4. VerifySlackSignature(input[r])
  BY <1>1, <1>2, <1>3 DEF SlackReply
<1> QED  BY <1>4 DEF VerifySlackSignature

-----------------------------------------------------------------------------
LEMMA WebhookTypesStep ==
  ASSUME WebhookInv, WebhookNext
  PROVE  WebhookTypeOK'
<1> USE DEF WebhookInv, WebhookTypeOK, Unanswered, Handling, Outcomes
<1>1. ASSUME NEW r \in Requests,
             Connect(r) \/ ReadBody(r) \/ Schedule(r)
      PROVE  WebhookTypeOK'
  BY <1>1 DEF Connect, ReadBody, Schedule, Goto
<1>2. ASSUME NEW r \in Requests, ReplyEarly(r)
      PROVE  WebhookTypeOK'
  <2>1. EarlyReply(input[r]) \in {0, 200, 400, 401, 422}
    BY <1>2, EarlyReplies DEF ReplyEarly, RequestFacts
  <2> QED
    BY <1>2, <2>1 DEF ReplyEarly, Settles, Goto
<1>3. ASSUME NEW r \in Requests,
             Answer(r) \/ Publish(r) \/ Published(r) \/ PublishFails(r) \/ BootInline(r)
      PROVE  WebhookTypeOK'
  BY <1>3 DEF Answer, Publish, Published, PublishFails, BootInline, Settles, Goto
<1>4. ASSUME NEW r \in Requests, RunInline(r) \/ InlineEnds(r)
      PROVE  WebhookTypeOK'
  BY <1>4 DEF RunInline, InlineEnds, Settles, Goto
<1>5. ASSUME NEW r \in Requests, DenyRollback(r) \/ StartRollback(r) \/ RollbackTimesOut(r)
      PROVE  WebhookTypeOK'
  BY <1>5 DEF DenyRollback, StartRollback, RollbackTimesOut, Tell, Goto
<1>6. ASSUME NEW r \in Requests, RollbackEnds(r)
      PROVE  WebhookTypeOK'
  BY <1>6 DEF RollbackEnds, Tell, Goto
<1>7. ASSUME NEW r \in Requests, ReplyToClick(r)
      PROVE  WebhookTypeOK'
  BY <1>7 DEF ReplyToClick, Settles, Goto
<1>8. ASSUME NEW r \in Requests, BodyFails(r)
      PROVE  WebhookTypeOK'
  BY <1>8 DEF BodyFails, webhookVars
<1>9. ASSUME NEW c \in window, WindowCloses(c)
      PROVE  WebhookTypeOK'
  BY <1>9 DEF WindowCloses
<1>10. CASE WebhookSigterm \/ ServerClosed \/ WebhookExit
  BY <1>10 DEF WebhookSigterm, ServerClosed, WebhookExit, webhookVars
<1> QED
  BY <1>1, <1>2, <1>3, <1>4, <1>5, <1>6, <1>7, <1>8, <1>9, <1>10 DEF WebhookNext, WebhookStep

-----------------------------------------------------------------------------
(* Requests and their rollbacks.                                           *)

RequestsOK == RequestFacts /\ RollbackFacts /\ RollbackToldTruly

LEMMA RequestsStep ==
  ASSUME WebhookInv, WebhookNext
  PROVE  RequestsOK'
<1> USE InputsAssumption
    DEF WebhookInv, WebhookTypeOK, RequestsOK, RequestFacts, RollbackFacts, RollbackToldTruly,
        RollbackAuthorized, Early
<1>1. ASSUME NEW r \in Requests,
             Connect(r) \/ ReadBody(r) \/ Schedule(r)
      PROVE  RequestsOK'
  BY <1>1 DEF Connect, ReadBody, Schedule, Goto
<1>2. ASSUME NEW r \in Requests,
             \/ ReplyEarly(r) \/ Answer(r) \/ Publish(r) \/ Published(r) \/ PublishFails(r)
             \/ BootInline(r) \/ RunInline(r)
      PROVE  RequestsOK'
  BY <1>2 DEF ReplyEarly, Answer, Publish, Published, PublishFails, BootInline, RunInline,
              Firing, Settles, Goto
<1>3. ASSUME NEW r \in Requests, InlineEnds(r)
      PROVE  RequestsOK'
  BY <1>3 DEF InlineEnds
<1>4. ASSUME NEW r \in Requests, DenyRollback(r)
      PROVE  RequestsOK'
  BY <1>4 DEF DenyRollback, Clicked, Tell, Goto
<1>5. ASSUME NEW r \in Requests, StartRollback(r)
      PROVE  RequestsOK'
  <2>1. input[r].signed
    BY <1>5, ClickIsSigned DEF StartRollback
  <2> QED
    BY <1>5, <2>1 DEF StartRollback, Clicked, Goto
<1>6. ASSUME NEW r \in Requests, RollbackTimesOut(r)
      PROVE  RequestsOK'
  BY <1>6 DEF RollbackTimesOut, Tell, Goto
<1>7. ASSUME NEW r \in Requests, RollbackEnds(r)
      PROVE  RequestsOK'
  <2>1. CASE req[r] = "rollback"
    BY <1>7, <2>1 DEF RollbackEnds, Outcomes, Tell, Goto
  <2>2. CASE req[r] # "rollback"
    BY <1>7, <2>2 DEF RollbackEnds, Outcomes
  <2> QED  BY <2>1, <2>2
<1>8. ASSUME NEW r \in Requests, ReplyToClick(r)
      PROVE  RequestsOK'
  BY <1>8 DEF ReplyToClick, Settles, Goto
<1>9. CASE UNCHANGED <<env, req, input, status, job, told, raced>>
  BY <1>9
<1>10. ASSUME NEW c \in window, WindowCloses(c)
       PROVE  RequestsOK'
  BY <1>9, <1>10 DEF WindowCloses
<1>11. ASSUME NEW r \in Requests, BodyFails(r)
       PROVE  RequestsOK'
  BY <1>9, <1>11 DEF BodyFails, webhookVars
<1>12. CASE WebhookSigterm \/ ServerClosed \/ WebhookExit
  BY <1>9, <1>12 DEF WebhookSigterm, ServerClosed, WebhookExit, webhookVars
<1> QED
  BY <1>1, <1>2, <1>3, <1>4, <1>5, <1>6, <1>7, <1>8, <1>10, <1>11, <1>12
     DEF WebhookNext, WebhookStep

-----------------------------------------------------------------------------
(* The queue.                                                              *)

LEMMA QueueStep ==
  ASSUME WebhookInv, WebhookNext
  PROVE  QueueOrigins' /\ AcceptedIsQueued'
<1> DEFINE Goal == QueueOrigins' /\ AcceptedIsQueued'
<1> USE InputsAssumption
    DEF WebhookInv, WebhookTypeOK, RequestFacts, QueueOrigins, AcceptedIsQueued, CorrelationId,
        Normalized, Early
<1>1. ASSUME NEW r \in Requests, Connect(r)
      PROVE  Goal
  BY <1>1 DEF Connect, Goto
<1>2. ASSUME UNCHANGED <<env, input, queue>>, window' \subseteq window,
             \A s \in Requests : req[s] # "none" => req'[s] # "none",
             \A s \in Requests :
               status'[s] = 200 /\ input[s].route = "alert" /\ Normalized(input[s]) # {}
                 /\ env.queue # "none" => status[s] = 200
      PROVE  Goal
  <2>1. QueueOrigins'
    BY <1>2
  <2>2. AcceptedIsQueued'
    BY <1>2
  <2> QED  BY <2>1, <2>2
<1>3. ASSUME NEW r \in Requests,
             ReadBody(r) \/ Schedule(r) \/ Answer(r) \/ Publish(r) \/ BootInline(r)
      PROVE  Goal
  BY <1>2, <1>3 DEF ReadBody, Schedule, Answer, Publish, BootInline, Goto
<1>4. ASSUME NEW r \in Requests, ReplyEarly(r)
      PROVE  Goal
  <2>1. input[r].route = "alert" /\ Normalized(input[r]) # {} => EarlyReply(input[r]) # 200
    BY <1>4, EarlyReplies DEF ReplyEarly
  <2> QED
    BY <1>2, <1>4, <2>1 DEF ReplyEarly, Settles, Goto
<1>5. ASSUME NEW r \in Requests, req[r] = "publish", Enqueue(r),
             NEW code \in {200, 500}, Settles(r, code), UNCHANGED <<env, input>>
      PROVE  Goal
  <2>1. /\ input' = input /\ input[r] \in Inputs /\ input[r].route = "alert"
        /\ \A s \in Requests : req[s] # "none" => req'[s] # "none"
        /\ req'[r] # "none"
    BY <1>5 DEF Settles, Goto
  <2>2. /\ queue \subseteq queue'
        /\ \A q \in queue' \ queue : q.id = CorrelationId(r) /\ q.payload = Normalized(input[r])
        /\ \A c \in window' \ window : c = CorrelationId(r)
        /\ \E q \in queue' : q.id = CorrelationId(r)
    <3> HIDE DEF CorrelationId, Normalized
    <3>1. CASE env.queue = "fifo" /\ CorrelationId(r) \in window
      BY <1>5, <3>1 DEF Enqueue
    <3>2. CASE ~(env.queue = "fifo" /\ CorrelationId(r) \in window)
      <4> DEFINE new == [id |-> CorrelationId(r), payload |-> Normalized(input[r])]
      <4>1. new.id = CorrelationId(r) /\ new.payload = Normalized(input[r])
        OBVIOUS
      <4>2. /\ queue' = queue \cup {new}
            /\ window' \subseteq window \cup {CorrelationId(r)}
        BY <1>5, <3>2 DEF Enqueue
      <4> HIDE DEF new
      <4> QED  BY <4>1, <4>2
    <3> QED  BY <3>1, <3>2
  <2>3. QueueOrigins'
    BY <2>1, <2>2
  <2>4. \E q \in queue' :
          /\ q.id = CorrelationId(r)
          /\ \/ q.payload = Normalized(input[r])
             \/ \E s \in Requests \ {r} :
                  /\ input[s] # Nothing /\ input[s].route = "alert"
                  /\ CorrelationId(s) = q.id /\ q.payload = Normalized(input[s])
    <3>1. PICK q \in queue' : q.id = CorrelationId(r)
      BY <2>2
    <3>2. CASE q \in queue
      <4>1. PICK s \in Requests :
              /\ req[s] # "none" /\ input[s].route = "alert"
              /\ q.id = CorrelationId(s) /\ q.payload = Normalized(input[s])
        BY <3>2
      <4>2. input[s] # Nothing
        BY <4>1
      <4> QED  BY <3>1, <4>1, <4>2
    <3> QED  BY <2>2, <3>1, <3>2
  <2>5. \A s \in Requests \ {r} : status'[s] = status[s]
    BY <1>5 DEF Settles
  <2>6. AcceptedIsQueued'
    BY <1>5, <2>1, <2>2, <2>4, <2>5
  <2> QED  BY <2>3, <2>6
<1>6. ASSUME NEW r \in Requests, Published(r)
      PROVE  Goal
  BY <1>5, <1>6 DEF Published
<1>7. ASSUME NEW r \in Requests, PublishFails(r)
      PROVE  Goal
  <2>1. CASE UNCHANGED <<queue, window>>
    BY <1>2, <1>7, <2>1 DEF PublishFails, Settles, Goto
  <2>2. CASE Enqueue(r)
    BY <1>5, <1>7, <2>2 DEF PublishFails
  <2> QED  BY <1>7, <2>1, <2>2 DEF PublishFails
<1>8. ASSUME NEW r \in Requests, RunInline(r) \/ InlineEnds(r)
      PROVE  Goal
  BY <1>2, <1>8 DEF RunInline, InlineEnds, Settles, Goto
<1>9. ASSUME NEW r \in Requests,
             DenyRollback(r) \/ StartRollback(r) \/ RollbackTimesOut(r) \/ RollbackEnds(r)
      PROVE  Goal
  BY <1>2, <1>9 DEF DenyRollback, StartRollback, RollbackTimesOut, RollbackEnds, Tell, Goto
<1>10. ASSUME NEW r \in Requests, ReplyToClick(r)
       PROVE  Goal
  BY <1>2, <1>10 DEF ReplyToClick, Settles, Goto
<1>11. ASSUME NEW c \in window, WindowCloses(c)
       PROVE  Goal
  BY <1>2, <1>11 DEF WindowCloses
<1>12. ASSUME NEW r \in Requests, BodyFails(r)
       PROVE  Goal
  BY <1>2, <1>12 DEF BodyFails, webhookVars
<1>13. CASE WebhookSigterm \/ ServerClosed \/ WebhookExit
  BY <1>2, <1>13 DEF WebhookSigterm, ServerClosed, WebhookExit, webhookVars
<1> HIDE DEF WebhookInv, WebhookTypeOK, RequestFacts, QueueOrigins, AcceptedIsQueued
<1> QED
  BY <1>1, <1>3, <1>4, <1>6, <1>7, <1>8, <1>9, <1>10, <1>11, <1>12, <1>13
     DEF WebhookNext, WebhookStep

-----------------------------------------------------------------------------
(* Shutdown.                                                               *)

LEMMA ClosingStep ==
  ASSUME WebhookInv, WebhookNext
  PROVE  Closing' /\ RequestsDrain'
<1> DEFINE Goal == Closing' /\ RequestsDrain'
<1> USE DEF WebhookInv, WebhookTypeOK, Closing, RequestsDrain, Alive
<1>1. ASSUME NEW r \in Requests, Connect(r)
      PROVE  Goal
  BY <1>1 DEF Connect, Goto
<1>2. ASSUME NEW r \in Requests, Alive, req[r] \in Unanswered,
             UNCHANGED <<proc, closing>>, req' = [req EXCEPT ![r] = req'[r]]
      PROVE  Goal
  BY <1>2
<1>3. ASSUME NEW r \in Requests,
             \/ ReadBody(r) \/ Schedule(r) \/ ReplyEarly(r) \/ Answer(r)
             \/ Publish(r) \/ Published(r) \/ PublishFails(r) \/ BootInline(r) \/ RunInline(r)
             \/ DenyRollback(r) \/ StartRollback(r) \/ RollbackTimesOut(r) \/ ReplyToClick(r)
      PROVE  Goal
  BY <1>2, <1>3 DEF ReadBody, Schedule, ReplyEarly, Answer, Publish, Published, PublishFails,
                    BootInline, RunInline, DenyRollback, StartRollback, RollbackTimesOut,
                    ReplyToClick, Settles, Tell, Goto, Firing, Clicked, Unanswered, Handling
<1>4. ASSUME NEW r \in Requests, RollbackEnds(r)
      PROVE  Goal
  <2>1. CASE req[r] = "rollback"
    BY <1>2, <1>4, <2>1 DEF RollbackEnds, Tell, Goto, Unanswered, Handling
  <2>2. CASE req[r] # "rollback"
    BY <1>4, <2>2 DEF RollbackEnds
  <2> QED  BY <2>1, <2>2
<1>5. ASSUME NEW r \in Requests, InlineEnds(r)
      PROVE  Goal
  BY <1>5 DEF InlineEnds
<1>6. ASSUME NEW c \in window, WindowCloses(c)
      PROVE  Goal
  BY <1>6 DEF WindowCloses
<1>7. ASSUME NEW r \in Requests, BodyFails(r)
      PROVE  Goal
  BY <1>7 DEF BodyFails, Ends, webhookVars
<1>8. CASE WebhookSigterm
  BY <1>8 DEF WebhookSigterm
<1>9. CASE ServerClosed
  BY <1>9 DEF ServerClosed
<1>10. CASE WebhookExit
  BY <1>10 DEF WebhookExit, Ends, webhookVars
<1> QED
  BY <1>1, <1>3, <1>4, <1>5, <1>6, <1>7, <1>8, <1>9, <1>10 DEF WebhookNext, WebhookStep

-----------------------------------------------------------------------------
(* The webhook's log lines.                                                *)

LEMMA WebhookLogsStep ==
  ASSUME WebhookInv, BufferInv, WebhookNext
  PROVE  WebhookLogs' /\ BufferInv'
<1> DEFINE Goal == WebhookLogs' /\ BufferInv'
<1> USE DEF WebhookLogs, Early, Line
<1>a. /\ WebhookLogs /\ Closing
      /\ req \in [Requests -> Unanswered \cup {"none", "answered"}]
  BY DEF WebhookInv, WebhookTypeOK
<1>b. \A r \in Requests :
        /\ r \in Posters /\ r # "webhook"
        /\ <<r, "slack">> \in Lines /\ <<r, "error">> \in Lines /\ <<r, "truncated">> \in Lines
        /\ <<r, "inline">> \in Lines /\ <<r, "init">> \in Lines /\ <<r, "event">> \in Lines
  BY WebhookLogging
<1>c. "webhook" \in Posters /\ <<"webhook", "sigterm">> \in Lines
  BY WebhookLogging
<1> USE <1>a, <1>b, <1>c
<1>0. proc \in {"up", "stopping", "exited", "crashed"} /\ posts \in [Posters -> SUBSET Lines]
  BY DEF BufferInv, BufferTypeOK
<1>1. ASSUME NEW r \in Requests, Connect(r) \/ ReadBody(r) \/ Schedule(r)
      PROVE  Goal
  <2>1. BufferInv'
    BY <1>0, <1>1, QuietKeeps DEF Connect, ReadBody, Schedule
  <2>2. WebhookLogs'
    BY <1>1 DEF Connect, ReadBody, Schedule, Goto, logVars
  <2> QED  BY <2>1, <2>2
<1>2. ASSUME UNCHANGED <<proc, closing>>, NEW r \in Requests,
             req[r] \notin {"flush", "answered"}, req' = [req EXCEPT ![r] = "flush"],
             \/ Flush(r) \/ Reinit
             \/ \E l \in {<<r, "slack">>, <<r, "init">>} :
                  l \notin written /\ (ReinitLogFlush(l, r) \/ LogAndFlush(l, r))
      PROVE  Goal
  <2>1. r \in Posters /\ Flushed(r) /\ <<r, "slack">> \in Lines /\ <<r, "init">> \in Lines
    BY <1>2 DEF Flushed
  <2>2. BufferInv'
    BY <1>0, <1>2, <2>1, FlushKeeps, ReinitKeeps, ReinitLogFlushKeeps, LogAndFlushKeeps
  <2>3. \A q \in Posters \ {r} : posts'[q] = posts[q]
    BY <1>0, <1>2 DEF Flush, Reinit, ReinitLogFlush, LogAndFlush
  <2>4. written' \subseteq written \cup {<<r, "slack">>, <<r, "init">>}
    BY <1>2 DEF Flush, Reinit, ReinitLogFlush, LogAndFlush
  <2>5. WebhookLogs'
    BY <1>2, <2>3, <2>4
  <2> QED  BY <2>2, <2>5
<1>3. ASSUME NEW r \in Requests, ReplyEarly(r)
      PROVE  Goal
  <2>1. <<r, "slack">> \notin written
    BY <1>3 DEF ReplyEarly
  <2> QED
    BY <1>2, <1>3, <2>1 DEF ReplyEarly, Settles, Goto
<1>4. ASSUME NEW r \in Requests, Published(r) \/ PublishFails(r) \/ ReplyToClick(r)
      PROVE  Goal
  BY <1>2, <1>4 DEF Published, PublishFails, ReplyToClick, Settles, Goto
<1>5. ASSUME NEW r \in Requests, RunInline(r)
      PROVE  Goal
  <2>1. <<r, "init">> \notin written
    BY <1>5 DEF RunInline
  <2> QED
    BY <1>2, <1>5, <2>1 DEF RunInline, Settles, Goto
<1>6. ASSUME NEW r \in Requests, Answer(r)
      PROVE  Goal
  <2>1. <<r, "error">> \in Lines \ written /\ r \in Posters
    BY <1>6 DEF Answer
  <2>2. BufferInv'
    BY <1>0, <1>6, <2>1, FlushKeeps, LogAndFlushKeeps DEF Answer
  <2>3. \A q \in Posters \ {r} : posts'[q] = posts[q]
    BY <1>0, <1>6 DEF Answer, Flush, LogAndFlush
  <2>4. /\ written' \subseteq written \cup {<<r, "error">>}
        /\ req' = [req EXCEPT ![r] = "answered"] /\ UNCHANGED <<proc, closing>>
    BY <1>6 DEF Answer, Goto, Flush, LogAndFlush
  <2>5. req[r] = "flush"
    BY <1>6 DEF Answer
  <2>6. WebhookLogs'
    BY <2>3, <2>4, <2>5
  <2> QED  BY <2>2, <2>6
<1>7. ASSUME UNCHANGED <<proc, closing>>, NEW r \in Requests,
             NEW to \in {"publish", "boot", "rollback", "tell"},
             NEW what \in {"truncated", "inline", "slack", "event"},
             IF what = "event" THEN req[r] = "rollback" /\ to = "tell" ELSE req[r] = "handling",
             req' = [req EXCEPT ![r] = to],
             Log(<<r, what>>) \/ ReinitAndLog(<<r, what>>)
      PROVE  Goal
  <2>1. <<r, what>> \in Lines \ written
    BY <1>7
  <2>2. BufferInv'
    BY <1>0, <1>7, <2>1, LogKeeps, ReinitAndLogKeeps
  <2>3. written' = written \cup {<<r, what>>} /\ posts' = posts
    BY <1>7 DEF Log, ReinitAndLog
  <2>4. WebhookLogs'
    BY <1>7, <2>3
  <2> QED  BY <2>2, <2>4
<1>8. ASSUME NEW r \in Requests, Publish(r)
      PROVE  Goal
  <2>1. /\ req[r] = "handling" /\ req' = [req EXCEPT ![r] = "publish"]
        /\ UNCHANGED <<proc, closing>>
    BY <1>8 DEF Publish, Firing, Goto
  <2>2. CASE Log(<<r, "truncated">>)
    BY <1>7, <2>1, <2>2
  <2>3. CASE UNCHANGED logVars
    <3>1. BufferInv'
      BY <1>0, <2>1, <2>3, QuietKeeps
    <3>2. WebhookLogs'
      BY <2>1, <2>3 DEF logVars
    <3> QED  BY <3>1, <3>2
  <2> QED  BY <1>8, <2>2, <2>3 DEF Publish
<1>9. ASSUME NEW r \in Requests, BootInline(r)
      PROVE  Goal
  <2>1. /\ req[r] = "handling" /\ req' = [req EXCEPT ![r] = "boot"]
        /\ Log(<<r, "inline">>) /\ UNCHANGED <<proc, closing>>
    BY <1>9 DEF BootInline, Firing, Goto
  <2> QED  BY <1>7, <2>1
<1>10. ASSUME NEW r \in Requests, DenyRollback(r) \/ StartRollback(r)
       PROVE  Goal
  <2>1. /\ req[r] = "handling" /\ \E to \in {"tell", "rollback"} : req' = [req EXCEPT ![r] = to]
        /\ ReinitAndLog(<<r, "slack">>) /\ UNCHANGED <<proc, closing>>
    BY <1>10 DEF DenyRollback, StartRollback, Clicked, Tell, Goto
  <2> QED  BY <1>7, <2>1
<1>11. ASSUME NEW r \in Requests, req[r] = "rollback", RollbackTimesOut(r) \/ RollbackEnds(r)
       PROVE  Goal
  <2>1. /\ req' = [req EXCEPT ![r] = "tell"]
        /\ Log(<<r, "event">>) /\ UNCHANGED <<proc, closing>>
    BY <1>11 DEF RollbackTimesOut, RollbackEnds, Tell, Goto
  <2> QED  BY <1>7, <1>11, <2>1
<1>12. ASSUME UNCHANGED <<proc, closing, req, logVars>>
       PROVE  Goal
  BY <1>0, <1>12, QuietKeeps DEF logVars
<1>13. ASSUME NEW r \in Requests, RollbackEnds(r)
       PROVE  Goal
  <2>1. CASE req[r] = "rollback"
    BY <1>11, <1>13, <2>1
  <2>2. CASE req[r] # "rollback"
    BY <1>12, <1>13, <2>2 DEF RollbackEnds
  <2> QED  BY <2>1, <2>2
<1>14. ASSUME NEW r \in Requests, InlineEnds(r)
       PROVE  Goal
  BY <1>12, <1>14 DEF InlineEnds
<1>15. ASSUME NEW c \in window, WindowCloses(c)
       PROVE  Goal
  BY <1>12, <1>15 DEF WindowCloses
<1>16. CASE WebhookSigterm
  <2>1. <<"webhook", "sigterm">> \in Lines \ written
    BY <1>16 DEF WebhookSigterm
  <2>2. BufferInv'
    BY <1>16, <2>1, LogKeeps DEF WebhookSigterm
  <2>3. WebhookLogs'
    BY <1>16 DEF WebhookSigterm, Log, Closing
  <2> QED  BY <2>2, <2>3
<1>17. CASE ServerClosed
  <2>1. "webhook" \in Posters /\ Flushed("webhook")
    BY <1>17 DEF ServerClosed, Flushed
  <2>2. BufferInv'
    BY <1>0, <1>17, <2>1, FlushKeeps DEF ServerClosed
  <2>3. WebhookLogs'
    BY <1>0, <1>17 DEF ServerClosed, Flush
  <2> QED  BY <2>2, <2>3
<1>18. ASSUME NEW how \in {"exited", "crashed"}, Ends(how), UNCHANGED webhookVars
       PROVE  Goal
  <2>1. BufferInv'
    BY <1>18, EndsKeeps
  <2>2. WebhookLogs'
    BY <1>18 DEF Ends, webhookVars
  <2> QED  BY <2>1, <2>2
<1>19. ASSUME NEW r \in Requests, BodyFails(r)
       PROVE  Goal
  BY <1>18, <1>19 DEF BodyFails
<1>20. CASE WebhookExit
  BY <1>18, <1>20 DEF WebhookExit
<1>21. ASSUME NEW r \in Requests, RollbackTimesOut(r)
       PROVE  Goal
  BY <1>11, <1>21 DEF RollbackTimesOut
<1> HIDE <1>a, <1>b, <1>c DEF WebhookLogs, Early, Line
<1> QED
  BY <1>1, <1>3, <1>4, <1>5, <1>6, <1>8, <1>9, <1>10, <1>13, <1>14, <1>15, <1>16,
     <1>17, <1>19, <1>20, <1>21 DEF WebhookNext, WebhookStep

-----------------------------------------------------------------------------
LEMMA WebhookInvStep ==
  ASSUME WebhookInv, BufferInv, WebhookNext
  PROVE  WebhookInv' /\ BufferInv'
BY WebhookTypesStep, RequestsStep, QueueStep, ClosingStep, WebhookLogsStep
   DEF WebhookInv, RequestsOK

(* A push that ends is no step of the webhook.                             *)
LEMMA WebhookPostSettles ==
  ASSUME WebhookInv, BufferInv, NEW p \in Posters, PostSettles(p), UNCHANGED webhookVars
  PROVE  WebhookInv'
<1> USE DEF webhookVars, PostSettles
<1>1. WebhookTypeOK' /\ RequestFacts'
  BY DEF WebhookInv, WebhookTypeOK, RequestFacts
<1>2. RollbackFacts' /\ RollbackToldTruly'
  BY DEF WebhookInv, RollbackFacts, RollbackToldTruly, RollbackAuthorized
<1>3. QueueOrigins' /\ AcceptedIsQueued'
  BY DEF WebhookInv, QueueOrigins, AcceptedIsQueued, CorrelationId
<1>4. Closing' /\ RequestsDrain'
  BY DEF WebhookInv, Closing, RequestsDrain, Alive
<1>5. WebhookLogs'
  <2>1. WebhookLogs /\ posts \in [Posters -> SUBSET Lines] /\ posts' = [posts EXCEPT ![p] = {}]
    BY DEF WebhookInv, BufferInv, BufferTypeOK
  <2>2. \A q \in Posters : posts[q] = {} => posts'[q] = {}
    BY <2>1
  <2>3. Requests \cup {"webhook"} \subseteq Posters
    BY WebhookLogging
  <2> QED
    BY <2>1, <2>2, <2>3 DEF WebhookLogs
<1> QED  BY <1>1, <1>2, <1>3, <1>4, <1>5 DEF WebhookInv
=============================================================================
