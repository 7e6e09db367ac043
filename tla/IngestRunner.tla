----------------------------- MODULE IngestRunner -----------------------------
(***************************************************************************)
(* The polling ingest runners of packages/ingest/src/polling under         *)
(* scripts/ingest-server.ts: every intervalMs a tick queries, for each     *)
(* rule, the logs of the last intervalMs (Loki) or the value of now        *)
(* (Prometheus), and hands the alerts to ProcessIncidentUseCase.           *)
(*                                                                         *)
(* Time is in units smaller than the interval, as a timer may fire late.   *)
(***************************************************************************)
EXTENDS LokiBuffer, FiniteSets

CONSTANTS
  Rules,    \* config.ingest.rules
  Interval, \* intervalMs, in units
  Jitter,   \* bound: how late the interval's callback may run
  Horizon,  \* bound: the units the model runs for
  Signals,  \* "SIGTERM", "SIGINT"
  Kinds     \* the runners: "loki", "prometheus"

ASSUME RunnerAssumption ==
  /\ Interval \in Nat \ {0} /\ Jitter \in Nat /\ Horizon \in Nat
  /\ Signals \subseteq {"SIGTERM", "SIGINT"}
  /\ Kinds \subseteq {"loki", "prometheus"}

ASSUME RunnerLogging == Signals \subseteq Posters /\ {"ingest"} \X Signals \subseteq Lines

VARIABLES
  kind,     \* the runner: createIngestRuntime builds the Loki one, the other
            \* is exported for programs that drive it the same way
  now,      \* Date.now()
  due,      \* when the interval's callback is due, 0 once cleared
  started,  \* start() was called
  stopped,  \* IngestRunner.stopped
  inFlight, \* the rules of inFlight, with what each awaits
  span,     \* the units an in-flight rule queries
  waits,    \* what the shutdown of each signal awaits
  held,     \* the rules whose promises a shutdown awaits
  \* History variables: they appear in no guard.
  seen,     \* seen[r]: units some query of rule r returned
  missed,   \* missed[r]: units a failed query or a skipped tick gave up
  late      \* units between two windows, as the timer was late

runnerVars == <<kind, now, due, started, stopped, inFlight, span, waits, held, seen, missed,
                late>>

RunnerInit ==
  /\ kind \in Kinds
  /\ now = Interval /\ due = 0
  /\ started = FALSE /\ stopped = FALSE
  /\ inFlight = [r \in Rules |-> "idle"]
  /\ span = [r \in Rules |-> {}]
  /\ waits = [g \in Signals |-> "no"]
  /\ held = [g \in Signals |-> {}]
  /\ seen = [r \in Rules |-> {}]
  /\ missed = [r \in Rules |-> {}]
  /\ late = {}

Busy == {r \in Rules : inFlight[r] # "idle"}

-----------------------------------------------------------------------------
(* One tick.                                                               *)

(* Mutant: the window starts one unit late.                                *)
WindowOffByOne(t) == IF kind = "loki" THEN (t - Interval + 1)..(t - 1) ELSE {t}

(* The units a query at t covers: start is t - intervalMs, and end t.      *)
Window(t) == IF kind = "loki" THEN (t - Interval)..(t - 1) ELSE {t}

(* tick: a rule whose last run has not settled is skipped, the others are  *)
(* queried.                                                                *)
Tick ==
  /\ inFlight' = [r \in Rules |-> IF r \in Busy THEN inFlight[r] ELSE "query"]
  /\ span' = [r \in Rules |-> IF r \in Busy THEN span[r] ELSE Window(now)]
  /\ missed' = [r \in Rules |-> IF r \in Busy THEN missed[r] \cup Window(now) ELSE missed[r]]

(* start(): a first tick, then the interval.                               *)
Start ==
  /\ proc = "up" /\ ~started
  /\ started' = TRUE /\ stopped' = FALSE
  /\ Tick
  /\ due' = now + Interval
  /\ UNCHANGED <<proc, kind, now, waits, held, seen, late, logVars>>

(* The interval's callback; Node starts the next interval when it has run. *)
Fire ==
  /\ Alive /\ due # 0 /\ now >= due /\ now + Interval <= Horizon
  /\ IF stopped THEN UNCHANGED <<inFlight, span, missed>> ELSE Tick
  /\ due' = now + Interval
  /\ late' = late \cup (due - Interval)..(now - Interval - 1)
  /\ UNCHANGED <<proc, kind, now, started, stopped, waits, held, seen, logVars>>

(* Time passes; a callback that is due runs within Jitter units.           *)
Pass ==
  /\ Alive /\ started /\ now < Horizon
  /\ due # 0 => now < due + Jitter
  /\ now' = now + 1
  /\ UNCHANGED <<proc, kind, due, started, stopped, inFlight, span, waits, held, seen, missed,
                 logVars, late>>

(* The query fails and is logged; or it returns no alert: the rule's run   *)
(* ends, and its finally removes it.                                       *)
QueryFails(r) ==
  /\ Alive /\ inFlight[r] = "query"
  /\ inFlight' = [inFlight EXCEPT ![r] = "idle"]
  /\ missed' = [missed EXCEPT ![r] = missed[r] \cup span[r]]
  /\ UNCHANGED <<proc, kind, now, due, started, stopped, span, waits, held, seen, late, logVars>>

QueryReturns(r) ==
  /\ Alive /\ inFlight[r] = "query"
  /\ \E next \in {"idle", "execute"} : inFlight' = [inFlight EXCEPT ![r] = next]
  /\ seen' = [seen EXCEPT ![r] = seen[r] \cup span[r]]
  /\ UNCHANGED <<proc, kind, now, due, started, stopped, span, waits, held, missed, late, logVars>>

(* useCase.execute settles: a rejection is swallowed by allSettled (Loki)  *)
(* or logged (Prometheus).                                                 *)
Executed(r) ==
  /\ Alive /\ inFlight[r] = "execute"
  /\ inFlight' = [inFlight EXCEPT ![r] = "idle"]
  /\ UNCHANGED <<proc, kind, now, due, started, stopped, span, waits, held, seen, missed,
                 logVars, late>>

-----------------------------------------------------------------------------
(* shutdown(signal), on SIGTERM and on SIGINT: each runs it by itself.     *)

(* Mutant: the interval is neither cleared nor told to stop.               *)
ShutdownLeavesInterval(g) ==
  /\ Alive /\ started /\ waits[g] = "no"
  /\ proc' = "stopping"
  /\ waits' = [waits EXCEPT ![g] = "stop"]
  /\ held' = [held EXCEPT ![g] = Busy]
  /\ Log(<<"ingest", g>>)
  /\ UNCHANGED <<kind, now, due, started, stopped, inFlight, span, seen, missed, late>>

(* runtime.stop() up to its await: the promises in flight now.             *)
Shutdown(g) ==
  /\ Alive /\ started /\ waits[g] = "no"
  /\ proc' = "stopping"
  /\ stopped' = TRUE /\ due' = 0
  /\ waits' = [waits EXCEPT ![g] = "stop"]
  /\ held' = [held EXCEPT ![g] = Busy]
  /\ Log(<<"ingest", g>>)
  /\ UNCHANGED <<kind, now, started, inFlight, span, seen, missed, late>>

Stopped(g) ==
  /\ Alive /\ waits[g] = "stop" /\ held[g] \cap Busy = {}
  /\ waits' = [waits EXCEPT ![g] = "flush"]
  /\ Flush(g)
  /\ UNCHANGED <<proc, kind, now, due, started, stopped, inFlight, span, held, seen, missed, late>>

RunnerExit(g) ==
  /\ Alive /\ waits[g] = "flush" /\ Flushed(g)
  /\ Ends("exited")
  /\ UNCHANGED runnerVars

RunnerStep ==
  \/ \E r \in Rules : QueryFails(r) \/ QueryReturns(r) \/ Executed(r)
  \/ \E g \in Signals : Stopped(g) \/ RunnerExit(g)

RunnerNext ==
  \/ RunnerStep \/ Start \/ Fire \/ Pass
  \/ \E g \in Signals : Shutdown(g)

-----------------------------------------------------------------------------
RunnerTypeOK ==
  /\ kind \in Kinds /\ now \in Nat /\ due \in Nat
  /\ started \in BOOLEAN /\ stopped \in BOOLEAN
  /\ inFlight \in [Rules -> {"idle", "query", "execute"}]
  /\ waits \in [Signals -> {"no", "stop", "flush"}]
  /\ held \in [Signals -> SUBSET Rules]

(* The windows of a Loki rule leave out nothing but what a failed query, a *)
(* tick skipped while the rule lagged, or a late timer leaves out: every   *)
(* other unit up to the last tick was returned or is being queried.        *)
NoGapBetweenWindows ==
  kind = "loki" /\ due # 0 =>
    \A r \in Rules :
      0..(due - Interval - 1) \subseteq
        seen[r] \cup missed[r] \cup late
          \cup (IF inFlight[r] = "query" THEN span[r] ELSE {})

(* "Drains in-flight work on SIGTERM / SIGINT before exiting"              *)
(* (ingest-server.ts:6), whichever of two shutdowns is the faster one.     *)
RunnerDrains == proc = "exited" => Busy = {}
=============================================================================
