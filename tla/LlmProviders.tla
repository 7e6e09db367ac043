----------------------------- MODULE LlmProviders -----------------------------
(***************************************************************************)
(* One call of ILLMProvider.analyze, for every provider of                 *)
(* packages/core/src/infrastructure/llm: the retry and the fallback chain  *)
(* of OpenRouter, the circuit breaker of Gemini, the abort of Bedrock, the *)
(* single requests of Claude and Vercel, and what shared.ts makes of the   *)
(* text they return.                                                       *)
(*                                                                         *)
(* clock counts ticks since the call began.  A request takes any of        *)
(* Delays; nothing in the OpenRouter provider bounds it.                   *)
(***************************************************************************)
EXTENDS Subsequences

CONSTANTS
  Providers,       \* the providers this instance may be configured with
  Primary,         \* LLM_MODEL
  Configured,      \* LLM_FALLBACK_MODELS, a sequence of models
  Wirings,         \* does the composition root pass the fallback options on?
  FallbackTimeout, \* LLM_FALLBACK_TIMEOUT_MS, in ticks
  Delays,          \* how long a request may take
  MaxDelay,        \* bound on Delays
  Backoffs,        \* the waits a 429 may ask for (default 5 s, cap 30 s)
  MaxBackoff,      \* bound on Backoffs
  AbortAfter,      \* HTTP_TIMEOUT_MS.LLM: Bedrock's abort, in ticks
  BreakerTimeout,  \* CIRCUIT_BREAKER.Timeout: Gemini's, in ticks
  Texts,           \* what a model may write
  Analyses         \* the analyses a text may hold

ASSUME LlmAssumption ==
  /\ Configured \in Seq(STRING) /\ Primary \in STRING
  /\ FallbackTimeout \in Nat \ {0}
  /\ MaxDelay \in Nat /\ Delays \subseteq 0..MaxDelay
  /\ MaxBackoff \in Nat /\ Backoffs \subseteq 0..MaxBackoff
  /\ AbortAfter \in Nat /\ BreakerTimeout \in Nat
  /\ \A a \in Analyses : a.given

VARIABLES
  provider,  \* which provider the factory built
  fallbacks, \* OpenRouterProvider.fallbackModels
  llm,       \* what the call awaits: "idle", "primary", "fallback", "call"
  attempt,   \* OpenRouter: requests to the primary model so far
  hop,       \* OpenRouter: the fallback model tried next
  clock,     \* ticks since the call began
  deadline,  \* OpenRouter: when the fallback chain gives up
  breaker,   \* Gemini: the opossum breaker, shared by all calls
  reply,     \* how the call ended
  asked      \* history: the models OpenRouter asked in this call

builtVars == <<provider, fallbacks>>
callVars  == <<attempt, hop, deadline>>
llmVars   == <<provider, fallbacks, llm, attempt, hop, clock, deadline, breaker, reply, asked>>

ChatProviders == {"openrouter", "qwen"}

(* analysis = null.                                                        *)
NoAnalysis == [given |-> FALSE, urgency |-> "none", rollback |-> FALSE, services |-> {}]

NoReply == [kind |-> "none", analysis |-> NoAnalysis, reason |-> "none"]

(* OpenRouterProvider's constructor drops the primary model of the list.   *)
Chain == Kept(Configured, {i \in DOMAIN Configured : Configured[i] # Primary})

(* createLLMProvider: qwen is an OpenRouterProvider too; without options   *)
(* the chain is empty.                                                     *)
Fallbacks(p, wired) == IF p \in ChatProviders /\ wired THEN Chain ELSE <<>>

LlmInit ==
  /\ provider \in Providers
  /\ \E wired \in Wirings : fallbacks = Fallbacks(provider, wired)
  /\ llm = "idle" /\ attempt = 0 /\ hop = 0 /\ clock = 0 /\ deadline = 0
  /\ breaker = "closed"
  /\ reply = NoReply
  /\ asked = <<>>

-----------------------------------------------------------------------------
(* shared.ts: what a text is worth.                                        *)

(* Stage 2 finds a cause and an urgency in the text.                       *)
Scraped(t) == t.cause /\ t.urgency # "none"

(* parseLlmText: stage 1 wants the whole JSON object to satisfy the        *)
(* schema; stage 2 validates what it scraped and throws when the urgency   *)
(* is unknown, or no steps were found, or their list is no JSON.           *)
Parsed(t) ==
  CASE t.blank -> "empty_response"
    [] ~t.blank /\ t.json -> "analysis"
    [] ~t.blank /\ ~t.json /\ Scraped(t) ->
         IF t.urgency = "valid" /\ t.steps = "list" THEN "analysis" ELSE "throws"
    [] OTHER -> "unparseable_response"

-----------------------------------------------------------------------------
(* How a call starts and ends.                                             *)

(* analyze() is entered.                                                   *)
StartAnalyze ==
  /\ llm = "idle" /\ reply.kind = "none"
  /\ llm' = IF provider \in ChatProviders THEN "primary" ELSE "call"
  /\ UNCHANGED <<builtVars, callVars, clock, breaker, reply, asked>>

Return(analysis, reason) ==
  /\ reply' = [kind |-> "result", analysis |-> analysis, reason |-> reason]
  /\ llm' = "idle"

Throw(reason) ==
  /\ reply' = [kind |-> "error", analysis |-> NoAnalysis, reason |-> reason]
  /\ llm' = "idle"

Answer(t) ==
  \/ Parsed(t) = "analysis" /\ \E a \in Analyses : Return(a, "none")
  \/ Parsed(t) = "throws" /\ Throw("schema")
  \/ Parsed(t) \notin {"analysis", "throws"} /\ Return(NoAnalysis, Parsed(t))

-----------------------------------------------------------------------------
(* OpenRouter.                                                             *)

Ask(model, d) ==
  /\ asked' = Append(asked, model)
  /\ clock' = clock + d

(* The first 429: wait as long as it asks, then ask once more.             *)
RateLimited ==
  /\ llm = "primary" /\ attempt = 0
  /\ \E d \in Delays, w \in Backoffs :
       /\ asked' = Append(asked, Primary)
       /\ clock' = clock + d + w
  /\ attempt' = 1
  /\ UNCHANGED <<builtVars, llm, hop, deadline, breaker, reply>>

(* The second 429: the fallback chain starts now, if there is one.         *)
RateLimitedAgain ==
  /\ llm = "primary" /\ attempt = 1
  /\ \E d \in Delays : Ask(Primary, d)
  /\ attempt' = 2
  /\ IF fallbacks # <<>>
     THEN /\ deadline' = clock' + FallbackTimeout
          /\ hop' = 1
          /\ llm' = "fallback"
          /\ UNCHANGED reply
     ELSE Throw("rate_limited") /\ UNCHANGED <<hop, deadline>>
  /\ UNCHANGED <<builtVars, breaker>>

(* Another status, a body that is no JSON, or a network error.             *)
PrimaryFails ==
  /\ llm = "primary"
  /\ \E d \in Delays : Ask(Primary, d)
  /\ attempt' = attempt + 1
  /\ Throw("failed")
  /\ UNCHANGED <<builtVars, hop, deadline, breaker>>

PrimaryAnswers ==
  /\ llm = "primary"
  /\ \E d \in Delays : Ask(Primary, d)
  /\ attempt' = attempt + 1
  /\ \E t \in Texts : Answer(t)
  /\ UNCHANGED <<builtVars, hop, deadline, breaker>>

(* Mutant: the deadline is not looked at.                                  *)
MayHopAlways == llm = "fallback" /\ hop <= Len(fallbacks)

(* The deadline is looked at before each request, never during one.        *)
MayHop == llm = "fallback" /\ hop <= Len(fallbacks) /\ clock < deadline

(* Mutant: a 429 asks the same model again.                                *)
FallbackAsksAgain ==
  /\ MayHop
  /\ \E d \in Delays : Ask(fallbacks[hop], d)
  /\ UNCHANGED <<builtVars, llm, attempt, hop, deadline, breaker, reply>>

FallbackRateLimited ==
  /\ MayHop
  /\ \E d \in Delays : Ask(fallbacks[hop], d)
  /\ hop' = hop + 1
  /\ UNCHANGED <<builtVars, llm, attempt, deadline, breaker, reply>>

FallbackFails ==
  /\ MayHop
  /\ \E d \in Delays : Ask(fallbacks[hop], d)
  /\ hop' = hop + 1
  /\ Throw("failed")
  /\ UNCHANGED <<builtVars, attempt, deadline, breaker>>

FallbackAnswers ==
  /\ MayHop
  /\ \E d \in Delays : Ask(fallbacks[hop], d)
  /\ hop' = hop + 1
  /\ \E t \in Texts : Answer(t)
  /\ UNCHANGED <<builtVars, attempt, deadline, breaker>>

(* Past the deadline, or past the last model.                              *)
FallbackGivesUp ==
  /\ llm = "fallback" /\ ~MayHop
  /\ Throw(IF hop <= Len(fallbacks) THEN "deadline" ELSE "rate_limited")
  /\ UNCHANGED <<builtVars, callVars, clock, breaker, asked>>

-----------------------------------------------------------------------------
(* Claude and the Vercel gateway: one request, every failure is thrown.    *)

SingleAnswers ==
  /\ llm = "call" /\ provider \in {"claude", "vercel-gateway"}
  /\ \E d \in Delays : clock' = clock + d
  /\ \E t \in Texts : Answer(t)
  /\ UNCHANGED <<builtVars, callVars, breaker, asked>>

SingleFails ==
  /\ llm = "call" /\ provider \in {"claude", "vercel-gateway"}
  /\ \E d \in Delays : clock' = clock + d
  /\ Throw("failed")
  /\ UNCHANGED <<builtVars, callVars, breaker, asked>>

-----------------------------------------------------------------------------
(* Bedrock: aborted after AbortAfter; throttling, outages and timeouts are *)
(* degraded results, any other error is thrown.                            *)

BedrockAnswers ==
  /\ llm = "call" /\ provider = "bedrock"
  /\ \E d \in Delays : d <= AbortAfter /\ clock' = clock + d
  /\ \E t \in Texts : Answer(t)
  /\ UNCHANGED <<builtVars, callVars, breaker, asked>>

BedrockUnavailable ==
  /\ llm = "call" /\ provider = "bedrock"
  /\ \E d \in Delays : d <= AbortAfter /\ clock' = clock + d
  /\ Return(NoAnalysis, "provider_unavailable")
  /\ UNCHANGED <<builtVars, callVars, breaker, asked>>

BedrockTimesOut ==
  /\ llm = "call" /\ provider = "bedrock"
  /\ \E d \in Delays \union {AbortAfter} : d <= AbortAfter /\ clock' = clock + d
  /\ Return(NoAnalysis, "timeout")
  /\ UNCHANGED <<builtVars, callVars, breaker, asked>>

BedrockFails ==
  /\ llm = "call" /\ provider = "bedrock"
  /\ \E d \in Delays : d <= AbortAfter /\ clock' = clock + d
  /\ Throw("failed")
  /\ UNCHANGED <<builtVars, callVars, breaker, asked>>

-----------------------------------------------------------------------------
(* Gemini behind its breaker.  The breaker opens when the failure rate     *)
(* passes 70 %, which the first failure of a window does; it lets one      *)
(* request through after 30 s.  A text that parseLlmText throws on is a    *)
(* failure of the breaker too.                                             *)

BreakerFails == breaker' \in IF breaker = "half" THEN {"open"} ELSE {"open", "closed"}

GeminiRejected ==
  /\ llm = "call" /\ provider = "gemini" /\ breaker = "open"
  /\ Return(NoAnalysis, "circuit_breaker_open")
  /\ UNCHANGED <<builtVars, callVars, clock, breaker, asked>>

GeminiAnswers ==
  /\ llm = "call" /\ provider = "gemini" /\ breaker # "open"
  /\ \E d \in Delays : d <= BreakerTimeout /\ clock' = clock + d
  /\ \E t \in Texts :
       /\ Answer(t)
       /\ IF Parsed(t) = "throws" THEN BreakerFails ELSE breaker' = "closed"
  /\ UNCHANGED <<builtVars, callVars, asked>>

GeminiTimesOut ==
  /\ llm = "call" /\ provider = "gemini" /\ breaker # "open"
  /\ \E d \in Delays \union {BreakerTimeout} :
       d <= BreakerTimeout /\ clock' = clock + d
  /\ BreakerFails
  /\ Return(NoAnalysis, "timeout")
  /\ UNCHANGED <<builtVars, callVars, asked>>

GeminiFails ==
  /\ llm = "call" /\ provider = "gemini" /\ breaker # "open"
  /\ \E d \in Delays : d <= BreakerTimeout /\ clock' = clock + d
  /\ BreakerFails
  /\ Throw("failed")
  /\ UNCHANGED <<builtVars, callVars, asked>>

(* resetTimeout has passed.                                                *)
BreakerHalfOpens ==
  /\ breaker = "open"
  /\ breaker' = "half"
  /\ UNCHANGED <<builtVars, llm, callVars, clock, reply, asked>>

-----------------------------------------------------------------------------
OpenRouterStep ==
  \/ RateLimited \/ RateLimitedAgain \/ PrimaryFails \/ PrimaryAnswers
  \/ FallbackRateLimited \/ FallbackFails \/ FallbackAnswers \/ FallbackGivesUp

CallStep ==
  \/ SingleAnswers \/ SingleFails
  \/ BedrockAnswers \/ BedrockUnavailable \/ BedrockTimesOut \/ BedrockFails
  \/ GeminiRejected \/ GeminiAnswers \/ GeminiTimesOut \/ GeminiFails

(* The caller has read the reply; the call's locals are gone.              *)
TakeReply ==
  /\ reply.kind # "none"
  /\ reply' = NoReply
  /\ clock' = 0
  /\ asked' = <<>>
  /\ attempt' = 0 /\ hop' = 0 /\ deadline' = 0
  /\ UNCHANGED <<builtVars, llm, breaker>>

LlmNext == StartAnalyze \/ OpenRouterStep \/ CallStep \/ BreakerHalfOpens \/ TakeReply

LlmSpec == LlmInit /\ [][LlmNext]_llmVars

-----------------------------------------------------------------------------
(* Properties.                                                             *)

(* Whatever the models answer, a call asks the primary model at most       *)
(* twice, then each model of the chain at most once and in order: the 429s *)
(* of a whole chain never turn into a loop of requests.                    *)
RequestsBounded ==
  /\ Len(asked) <= 2 + Len(fallbacks)
  /\ \A i \in DOMAIN asked : asked[i] = IF i <= 2 THEN Primary ELSE fallbacks[i - 2]

(* openrouter.provider.ts looks at the deadline only between requests.     *)
(* The call still ends within one request of it: two primary requests, the *)
(* backoff, the chain's timeout and the request in flight when it passes.  *)
CallBounded ==
  provider \in ChatProviders =>
    clock < 3 * MaxDelay + MaxBackoff + FallbackTimeout

(* CHANGELOG.md:70: after the primary model exhausts its 429 retries, the  *)
(* provider cycles through LLM_FALLBACK_MODELS until one succeeds or the   *)
(* timeout is exceeded.  So a call that ends rate limited has asked every  *)
(* other model of the setting.                                             *)
FallbackTried ==
  reply.kind = "error" /\ reply.reason = "rate_limited" =>
    \A i \in DOMAIN Configured :
      \E j \in DOMAIN asked : asked[j] = Configured[i]
=============================================================================
