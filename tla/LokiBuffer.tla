------------------------------ MODULE LokiBuffer ------------------------------
(***************************************************************************)
(* shared/logger: the in-process buffer of log lines every server and      *)
(* Lambda of Junando pushes to Loki, with LOKI_URL set, and the life of    *)
(* the process that holds it.  The buffer is module state: requests,       *)
(* polls and signal handlers of one process write and flush it together.   *)
(***************************************************************************)
EXTENDS Naturals, Sequences

CONSTANTS
  Posters,         \* who flushes: requests, polls, signal handlers
  Lines,           \* the log lines the process may write, each once
  MaxBufferEntries \* MAX_BUFFER_ENTRIES

ASSUME BufferAssumption == MaxBufferEntries \in Nat \ {0}

VARIABLES
  proc,   \* "up", "stopping" after SIGTERM, "exited", "crashed"
  buffer, \* _buffer
  posts,  \* posts[p]: the lines of the push p awaits, {} when it awaits none
  \* History variables: they appear in no guard.
  written, \* lines handed to the destination
  past     \* lines pushed, or lost: evicted, cleared, refused by Loki, or
           \* in a process that ended

logVars == <<buffer, posts, written, past>>

BufferInit ==
  /\ proc = "up"
  /\ buffer = <<>>
  /\ posts = [p \in Posters |-> {}]
  /\ written = {} /\ past = {}

Elements(s) == {s[i] : i \in 1..Len(s)}

InFlight == UNION {posts[p] : p \in Posters}

Alive == proc \in {"up", "stopping"}

(* Mutant: the buffer is no ring.                                          *)
WrittenUnbounded(b, l) == Append(b, l)

(* The destination's write: the oldest entry makes room for the newest.    *)
Written(b, l) == Append(IF Len(b) >= MaxBufferEntries THEN Tail(b) ELSE b, l)

Evicted(b) == IF Len(b) >= MaxBufferEntries THEN {Head(b)} ELSE {}

Log(l) ==
  /\ buffer' = Written(buffer, l)
  /\ written' = written \cup {l}
  /\ past' = past \cup Evicted(buffer)
  /\ UNCHANGED posts

(* reinitLogger, then a line: initLokiBuffer empties a buffer that may     *)
(* hold the lines of other requests.                                       *)
ReinitAndLog(l) ==
  /\ buffer' = <<l>>
  /\ written' = written \cup {l}
  /\ past' = past \cup Elements(buffer)
  /\ UNCHANGED posts

Reinit ==
  /\ buffer' = <<>>
  /\ past' = past \cup Elements(buffer)
  /\ UNCHANGED <<posts, written>>

(* reinitLogger, a line, then flushLoki, with no await in between.         *)
ReinitLogFlush(l, p) ==
  /\ posts' = [posts EXCEPT ![p] = {l}]
  /\ buffer' = <<>>
  /\ written' = written \cup {l}
  /\ past' = past \cup Elements(buffer)

(* Mutant: the buffer is emptied when the push has settled.                *)
FlushKeepingLines(p) ==
  /\ posts' = [posts EXCEPT ![p] = Elements(buffer)]
  /\ UNCHANGED <<buffer, written, past>>

(* flushLoki up to its await: copy the lines and empty the buffer.         *)
Flush(p) ==
  /\ posts' = [posts EXCEPT ![p] = Elements(buffer)]
  /\ buffer' = <<>>
  /\ UNCHANGED <<written, past>>

(* A line, then flushLoki, with no await in between.                       *)
LogAndFlush(l, p) ==
  /\ posts' = [posts EXCEPT ![p] = Elements(Written(buffer, l))]
  /\ buffer' = <<>>
  /\ written' = written \cup {l}
  /\ past' = past \cup Evicted(buffer)

(* flushLoki(p) has returned, or never had a push to await.                *)
Flushed(p) == posts[p] = {}

(* The push p awaits is answered, refused or times out; all are swallowed. *)
PostSettles(p) ==
  /\ Alive /\ posts[p] # {}
  /\ past' = past \cup posts[p]
  /\ posts' = [posts EXCEPT ![p] = {}]
  /\ UNCHANGED <<proc, buffer, written>>

(* The process ends: what it has not pushed goes with it.                  *)
Ends(how) ==
  /\ proc' = how
  /\ past' = past \cup Elements(buffer) \cup InFlight
  /\ buffer' = <<>>
  /\ posts' = [p \in Posters |-> {}]
  /\ UNCHANGED written

-----------------------------------------------------------------------------
BufferTypeOK ==
  /\ proc \in {"up", "stopping", "exited", "crashed"}
  /\ buffer \in Seq(Lines) /\ Len(buffer) <= MaxBufferEntries
  /\ posts \in [Posters -> SUBSET Lines]
  /\ written \subseteq Lines /\ past \subseteq Lines

(* Every line is in one place: buffered, in one push under way, or done    *)
(* with.  However writers and flushers interleave, none is pushed twice    *)
(* and none is forgotten.                                                  *)
LinesAccountedFor ==
  /\ written = Elements(buffer) \cup InFlight \cup past
  /\ Elements(buffer) \cap InFlight = {}
  /\ (Elements(buffer) \cup InFlight) \cap past = {}
  /\ \A p, q \in Posters : p # q => posts[p] \cap posts[q] = {}
=============================================================================
