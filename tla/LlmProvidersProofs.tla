-------------------------- MODULE LlmProvidersProofs --------------------------
(***************************************************************************)
(* The two bounds of an LLM call, for every chain of fallback models and   *)
(* every timing: how many requests it makes and how long it lasts; what a  *)
(* caller may conclude from the reply; and which models a rate limited call*)
(* has asked where the chain is wired.                                     *)
(***************************************************************************)
EXTENDS LlmProviders, SubsequenceProofs, SequenceTheorems, TLAPS

(* The types of the variables the bounds speak of.                         *)
LlmTypes ==
  /\ fallbacks \in Seq(STRING) /\ asked \in Seq(STRING)
  /\ llm \in {"idle", "primary", "fallback", "call"}
  /\ attempt \in Nat /\ hop \in Nat /\ clock \in Nat /\ deadline \in Nat

(* A reply means the call is over; once it was taken nothing is left of it.*)
Quiet ==
  /\ reply.kind # "none" => llm = "idle"
  /\ llm = "idle" /\ reply.kind = "none" => asked = <<>> /\ clock = 0 /\ attempt = 0

(* Only the single-request providers, and only they, are in a "call".      *)
CallKind == (llm = "call" => provider \notin ChatProviders)

(* The primary model: one request so far means one delay and one backoff.  *)
AtPrimary ==
  llm = "primary" =>
    /\ attempt \in {0, 1} /\ Len(asked) = attempt
    /\ attempt = 0 => clock = 0
    /\ attempt = 1 => clock <= MaxDelay + MaxBackoff

(* The chain: hop counts the models asked, and the clock never leaves the  *)
(* deadline behind by more than one request.                               *)
AtFallback ==
  llm = "fallback" =>
    /\ hop >= 1 /\ hop <= Len(fallbacks) + 1 /\ Len(asked) = hop + 1
    /\ clock < deadline + MaxDelay
    /\ deadline <= 2 * MaxDelay + MaxBackoff + FallbackTimeout

LlmInv == LlmTypes /\ Quiet /\ CallKind /\ AtPrimary /\ AtFallback /\ RequestsBounded /\ CallBounded

(* How long a request or a backoff may be.                                 *)
LEMMA DelayBounds ==
  /\ \A d \in Delays : d \in Nat /\ d <= MaxDelay
  /\ \A w \in Backoffs : w \in Nat /\ w <= MaxBackoff
  /\ MaxDelay \in Nat /\ MaxBackoff \in Nat
  /\ FallbackTimeout \in Nat /\ FallbackTimeout > 0
  /\ AbortAfter \in Nat /\ BreakerTimeout \in Nat
  /\ Primary \in STRING
<1>1. /\ MaxDelay \in Nat /\ MaxBackoff \in Nat
      /\ AbortAfter \in Nat /\ BreakerTimeout \in Nat /\ Primary \in STRING
  BY LlmAssumption DEF LlmAssumption
<1>2. FallbackTimeout \in Nat /\ FallbackTimeout > 0
  BY LlmAssumption DEF LlmAssumption
<1>3. Delays \subseteq 0..MaxDelay /\ Backoffs \subseteq 0..MaxBackoff
  BY LlmAssumption DEF LlmAssumption
<1>4. ASSUME NEW d \in Delays PROVE d \in Nat /\ d <= MaxDelay
  <2>1. d \in 0..MaxDelay
    BY <1>3
  <2> QED
    BY <1>1, <2>1
<1>5. ASSUME NEW w \in Backoffs PROVE w \in Nat /\ w <= MaxBackoff
  <2>1. w \in 0..MaxBackoff
    BY <1>3
  <2> QED
    BY <1>1, <2>1
<1> QED
  BY <1>1, <1>2, <1>4, <1>5

(* A deadline set now.                                                     *)
LEMMA DeadlineBounds ==
  ASSUME NEW now \in Nat, NEW due, due = now + FallbackTimeout, now <= 2 * MaxDelay + MaxBackoff
  PROVE  /\ due \in Nat /\ now < due + MaxDelay
         /\ due <= 2 * MaxDelay + MaxBackoff + FallbackTimeout
BY DelayBounds

(* The constructor's filter leaves a chain of models without the primary   *)
(* one, and drops no other.                                                *)
LEMMA ChainElements ==
  /\ Chain \in Seq(STRING)
  /\ \A i \in DOMAIN Configured :
       Configured[i] # Primary => \E j \in DOMAIN Chain : Chain[j] = Configured[i]
<1> DEFINE K == {i \in DOMAIN Configured : Configured[i] # Primary}
<1>1. Configured \in Seq(STRING) /\ K \in SUBSET (DOMAIN Configured)
  BY LlmAssumption DEF LlmAssumption
<1>2. /\ Kept(Configured, K) \in Seq(STRING)
      /\ \A i \in K : \E j \in DOMAIN Kept(Configured, K) : Kept(Configured, K)[j] = Configured[i]
  BY <1>1, KeptElements
<1> QED  BY <1>2 DEF Chain

LEMMA LlmInitInv == LlmInit => LlmInv
<1> SUFFICES ASSUME LlmInit PROVE LlmInv
  OBVIOUS
<1>1. fallbacks \in Seq(STRING)
  <2> PICK wired \in Wirings : fallbacks = Fallbacks(provider, wired)
    BY DEF LlmInit
  <2>1. CASE fallbacks = Chain
    BY <2>1, ChainElements
  <2>2. CASE fallbacks = <<>>
    BY <2>2
  <2> QED
    BY <2>1, <2>2 DEF Fallbacks
<1>2. Len(fallbacks) \in Nat
  BY <1>1
<1> QED
  BY <1>1, <1>2, DelayBounds
  DEF LlmInit, LlmInv, LlmTypes, Quiet, CallKind, AtPrimary, AtFallback,
      RequestsBounded, CallBounded

(* One more request keeps the history in the order of the chain.           *)
LEMMA AskInOrder ==
  ASSUME LlmInv, NEW model \in STRING, asked' = Append(asked, model), fallbacks' = fallbacks,
         Len(asked) < 2 + Len(fallbacks),
         model = IF Len(asked) < 2 THEN Primary ELSE fallbacks[Len(asked) - 1]
  PROVE  RequestsBounded' /\ asked' \in Seq(STRING) /\ Len(asked') = Len(asked) + 1
<1> USE DEF LlmInv, LlmTypes
<1>1. asked' \in Seq(STRING) /\ Len(asked') = Len(asked) + 1 /\ Len(asked) \in Nat
  OBVIOUS
<1>2. ASSUME NEW i \in DOMAIN asked'
      PROVE  asked'[i] = IF i <= 2 THEN Primary ELSE fallbacks[i - 2]
  <2>1. i \in 1..(Len(asked) + 1)
    BY <1>1
  <2>2. CASE i = Len(asked) + 1
    BY <2>1, <2>2, <1>1
  <2>3. CASE i \in 1..Len(asked)
    <3>1. asked'[i] = asked[i] /\ i \in DOMAIN asked
      BY <2>3
    <3> QED
      BY <3>1 DEF RequestsBounded
  <2> QED
    BY <2>1, <2>2, <2>3, <1>1
<1>3. Len(asked') <= 2 + Len(fallbacks')
  BY <1>1
<1> QED
  BY <1>1, <1>2, <1>3 DEF RequestsBounded

(* What a step that ends the call leaves: no phase's condition applies.    *)
LEMMA EndKeepsInv ==
  ASSUME LlmTypes', llm' = "idle", reply'.kind # "none", RequestsBounded', CallBounded'
  PROVE  LlmInv'
BY DEF LlmInv, Quiet, CallKind, AtPrimary, AtFallback

(* Every way a text is answered ends the call with a reply.                *)
LEMMA AnswerEnds ==
  ASSUME NEW t, Answer(t) PROVE llm' = "idle" /\ reply'.kind # "none"
BY DEF Answer, Return, Throw

LEMMA ThrowEnds ==
  ASSUME NEW why, Throw(why) PROVE llm' = "idle" /\ reply'.kind # "none"
BY DEF Throw

LEMMA ReturnEnds ==
  ASSUME NEW a, NEW why, Return(a, why) PROVE llm' = "idle" /\ reply'.kind # "none"
BY DEF Return

(* A request to the primary model, whatever becomes of it.                 *)
LEMMA PrimaryAsked ==
  ASSUME LlmInv, llm = "primary", NEW d \in Delays, Ask(Primary, d), UNCHANGED builtVars
  PROVE  /\ RequestsBounded' /\ CallBounded'
         /\ asked' \in Seq(STRING) /\ Len(asked') = attempt + 1
         /\ clock' \in Nat /\ clock' <= 2 * MaxDelay + MaxBackoff
         /\ fallbacks' \in Seq(STRING)
<1> USE DelayBounds DEF LlmInv, LlmTypes
<1>1. Len(asked) = attempt /\ attempt \in {0, 1} /\ Len(fallbacks) \in Nat
  BY DEF AtPrimary
<1>2. RequestsBounded' /\ asked' \in Seq(STRING) /\ Len(asked') = attempt + 1
  BY <1>1, AskInOrder DEF Ask, builtVars
<1>3. clock' \in Nat /\ clock' <= 2 * MaxDelay + MaxBackoff
  <2>1. clock' = clock + d /\ d \in Nat /\ d <= MaxDelay
    BY DEF Ask
  <2>2. clock <= MaxDelay + MaxBackoff
    BY <1>1 DEF AtPrimary
  <2> QED
    BY <2>1, <2>2
<1>4. CallBounded'
  BY <1>3 DEF CallBounded
<1> QED
  BY <1>2, <1>3, <1>4 DEF builtVars

(* A request to the next model of the chain.                               *)
LEMMA FallbackAsked ==
  ASSUME LlmInv, MayHop, NEW d \in Delays, Ask(fallbacks[hop], d), UNCHANGED builtVars,
         deadline' = deadline
  PROVE  /\ RequestsBounded' /\ CallBounded'
         /\ asked' \in Seq(STRING) /\ Len(asked') = hop + 2
         /\ clock' \in Nat /\ clock' < deadline + MaxDelay
         /\ fallbacks' \in Seq(STRING)
<1> USE DelayBounds DEF LlmInv, LlmTypes
<1>1. /\ hop \in 1..Len(fallbacks) /\ Len(asked) = hop + 1 /\ Len(fallbacks) \in Nat
      /\ clock < deadline /\ deadline <= 2 * MaxDelay + MaxBackoff + FallbackTimeout
  BY DEF MayHop, AtFallback
<1>2. fallbacks[hop] \in STRING
  BY <1>1
<1>3. RequestsBounded' /\ asked' \in Seq(STRING) /\ Len(asked') = hop + 2
  <2>1. Len(asked) < 2 + Len(fallbacks) /\ ~(Len(asked) < 2) /\ Len(asked) - 1 = hop
    BY <1>1
  <2>2. fallbacks[hop] = IF Len(asked) < 2 THEN Primary ELSE fallbacks[Len(asked) - 1]
    BY <2>1
  <2>3. asked' = Append(asked, fallbacks[hop]) /\ fallbacks' = fallbacks
    BY DEF Ask, builtVars
  <2>4. RequestsBounded' /\ asked' \in Seq(STRING) /\ Len(asked') = Len(asked) + 1
    BY <1>2, <2>1, <2>2, <2>3, AskInOrder
  <2> QED
    BY <1>1, <2>4
<1>4. clock' \in Nat /\ clock' < deadline + MaxDelay
  <2>1. clock' = clock + d /\ d \in Nat /\ d <= MaxDelay
    BY DEF Ask
  <2> QED
    BY <1>1, <2>1
<1>5. CallBounded'
  BY <1>1, <1>4 DEF CallBounded
<1> QED
  BY <1>3, <1>4, <1>5 DEF builtVars

LEMMA OpenRouterKeepsInv == ASSUME LlmInv, OpenRouterStep PROVE LlmInv'
<1> USE DelayBounds
<1>1. CASE RateLimited
  <2> PICK d \in Delays, w \in Backoffs :
        asked' = Append(asked, Primary) /\ clock' = clock + d + w
    BY <1>1 DEF RateLimited
  <2>1. llm = "primary" /\ attempt = 0 /\ attempt' = 1 /\ UNCHANGED <<builtVars, llm, hop, deadline, reply>>
    BY <1>1 DEF RateLimited
  <2>2. Len(asked) = 0 /\ clock = 0 /\ Len(fallbacks) \in Nat
    BY <2>1 DEF LlmInv, AtPrimary, LlmTypes
  <2>3. RequestsBounded' /\ asked' \in Seq(STRING) /\ Len(asked') = 1
    BY <2>1, <2>2, AskInOrder DEF builtVars
  <2>4. clock' \in Nat /\ clock' <= MaxDelay + MaxBackoff
    BY <2>2
  <2>5. CallBounded'
    BY <2>4 DEF CallBounded
  <2> QED
    BY <2>1, <2>3, <2>4, <2>5
    DEF LlmInv, LlmTypes, Quiet, CallKind, AtPrimary, AtFallback, builtVars
<1>2. CASE RateLimitedAgain
  <2> PICK d \in Delays : Ask(Primary, d)
    BY <1>2 DEF RateLimitedAgain
  <2>1. llm = "primary" /\ attempt = 1 /\ attempt' = 2 /\ UNCHANGED builtVars
    BY <1>2 DEF RateLimitedAgain
  <2>2. /\ RequestsBounded' /\ CallBounded'
        /\ asked' \in Seq(STRING) /\ Len(asked') = 2
        /\ clock' \in Nat /\ clock' <= 2 * MaxDelay + MaxBackoff
        /\ fallbacks' \in Seq(STRING)
    BY <2>1, PrimaryAsked
  <2>3. CASE fallbacks # <<>>
    <3>1. deadline' = clock' + FallbackTimeout /\ hop' = 1 /\ llm' = "fallback" /\ reply' = reply
      BY <1>2, <2>3 DEF RateLimitedAgain
    <3>2. reply'.kind = "none"
      BY <2>1, <3>1 DEF LlmInv, Quiet
    <3>3. Len(fallbacks') \in Nat
      BY <2>2
    <3>4. /\ deadline' \in Nat /\ clock' < deadline' + MaxDelay
          /\ deadline' <= 2 * MaxDelay + MaxBackoff + FallbackTimeout
      <4>1. /\ clock' \in Nat /\ FallbackTimeout \in Nat /\ FallbackTimeout > 0
            /\ MaxDelay \in Nat /\ MaxBackoff \in Nat
            /\ deadline' = clock' + FallbackTimeout
            /\ clock' <= 2 * MaxDelay + MaxBackoff
        BY <2>2, <3>1
      <4> QED
        BY <4>1, DeadlineBounds
    <3>5. hop' >= 1 /\ hop' <= Len(fallbacks') + 1 /\ Len(asked') = hop' + 1
      BY <2>2, <3>1, <3>3
    <3>6. LlmTypes'
      BY <2>1, <2>2, <3>1, <3>4 DEF LlmTypes
    <3>7. AtFallback'
      BY <3>4, <3>5 DEF AtFallback
    <3> QED
      BY <2>2, <3>1, <3>2, <3>6, <3>7 DEF LlmInv, Quiet, CallKind, AtPrimary
  <2>4. CASE fallbacks = <<>>
    <3>1. Throw("rate_limited") /\ UNCHANGED <<hop, deadline>>
      BY <1>2, <2>4 DEF RateLimitedAgain
    <3>2. LlmTypes'
      BY <2>1, <2>2, <3>1, ThrowEnds DEF LlmInv, LlmTypes
    <3> QED
      BY <2>2, <3>1, <3>2, ThrowEnds, EndKeepsInv
  <2> QED
    BY <2>3, <2>4
<1>3. ASSUME PrimaryFails \/ PrimaryAnswers PROVE LlmInv'
  <2>1. /\ llm = "primary" /\ attempt' = attempt + 1
        /\ UNCHANGED <<builtVars, hop, deadline>>
        /\ llm' = "idle" /\ reply'.kind # "none"
    BY <1>3, AnswerEnds, ThrowEnds DEF PrimaryFails, PrimaryAnswers
  <2> PICK d \in Delays : Ask(Primary, d)
    BY <1>3 DEF PrimaryFails, PrimaryAnswers
  <2>2. /\ RequestsBounded' /\ CallBounded' /\ asked' \in Seq(STRING) /\ clock' \in Nat
        /\ fallbacks' \in Seq(STRING)
    BY <2>1, PrimaryAsked
  <2>3. LlmTypes'
    BY <2>1, <2>2 DEF LlmInv, LlmTypes
  <2> QED
    BY <2>1, <2>2, <2>3, EndKeepsInv
<1>4. CASE FallbackRateLimited
  <2> PICK d \in Delays : Ask(fallbacks[hop], d)
    BY <1>4 DEF FallbackRateLimited
  <2>1. MayHop /\ hop' = hop + 1 /\ UNCHANGED <<builtVars, llm, attempt, deadline, reply>>
    BY <1>4 DEF FallbackRateLimited
  <2>2. /\ RequestsBounded' /\ CallBounded'
        /\ asked' \in Seq(STRING) /\ Len(asked') = hop + 2
        /\ clock' \in Nat /\ clock' < deadline + MaxDelay
        /\ fallbacks' \in Seq(STRING)
    BY <2>1, FallbackAsked
  <2> QED
    BY <2>1, <2>2
    DEF LlmInv, LlmTypes, Quiet, CallKind, AtPrimary, AtFallback, MayHop, builtVars
<1>5. ASSUME FallbackFails \/ FallbackAnswers PROVE LlmInv'
  <2>1. /\ MayHop /\ hop' = hop + 1
        /\ UNCHANGED <<builtVars, attempt, deadline>>
        /\ llm' = "idle" /\ reply'.kind # "none"
    BY <1>5, AnswerEnds, ThrowEnds DEF FallbackFails, FallbackAnswers
  <2> PICK d \in Delays : Ask(fallbacks[hop], d)
    BY <1>5 DEF FallbackFails, FallbackAnswers
  <2>2. /\ RequestsBounded' /\ CallBounded' /\ asked' \in Seq(STRING) /\ clock' \in Nat
        /\ fallbacks' \in Seq(STRING)
    BY <2>1, FallbackAsked
  <2>3. LlmTypes'
    BY <2>1, <2>2 DEF LlmInv, LlmTypes
  <2> QED
    BY <2>1, <2>2, <2>3, EndKeepsInv
<1>6. CASE FallbackGivesUp
  <2>1. /\ llm' = "idle" /\ reply'.kind # "none"
        /\ UNCHANGED <<builtVars, callVars, clock, asked>>
    BY <1>6, ThrowEnds DEF FallbackGivesUp
  <2>2. LlmTypes' /\ RequestsBounded' /\ CallBounded'
    BY <2>1 DEF LlmInv, LlmTypes, RequestsBounded, CallBounded, builtVars, callVars
  <2> QED
    BY <2>1, <2>2, EndKeepsInv
<1> QED
  BY <1>1, <1>2, <1>3, <1>4, <1>5, <1>6 DEF OpenRouterStep

(* The other providers make one request and are not chat providers.        *)
LEMMA CallKeepsInv == ASSUME LlmInv, CallStep PROVE LlmInv'
<1> USE DelayBounds
<1>1. /\ llm = "call" /\ UNCHANGED <<builtVars, callVars, asked>>
      /\ llm' = "idle" /\ reply'.kind # "none"
  BY AnswerEnds, ThrowEnds, ReturnEnds
  DEF CallStep, SingleAnswers, SingleFails, BedrockAnswers, BedrockUnavailable,
      BedrockTimesOut, BedrockFails, GeminiRejected, GeminiAnswers, GeminiTimesOut, GeminiFails
<1>2. \E d \in Nat : clock' = clock + d
  <2>1. CASE BedrockTimesOut
    BY <2>1 DEF BedrockTimesOut
  <2>2. CASE GeminiRejected
    BY <2>2 DEF GeminiRejected, LlmInv, LlmTypes
  <2>3. CASE GeminiTimesOut
    BY <2>3 DEF GeminiTimesOut
  <2>4. CASE SingleAnswers \/ SingleFails
    BY <2>4 DEF SingleAnswers, SingleFails
  <2>5. CASE BedrockAnswers \/ BedrockUnavailable \/ BedrockFails
    BY <2>5 DEF BedrockAnswers, BedrockUnavailable, BedrockFails
  <2>6. CASE GeminiAnswers \/ GeminiFails
    BY <2>6 DEF GeminiAnswers, GeminiFails
  <2> QED
    BY <2>1, <2>2, <2>3, <2>4, <2>5, <2>6 DEF CallStep
<1>3. LlmTypes'
  BY <1>1, <1>2 DEF LlmInv, LlmTypes, builtVars, callVars
<1>4. RequestsBounded' /\ CallBounded'
  BY <1>1 DEF LlmInv, CallKind, RequestsBounded, CallBounded, builtVars, callVars
<1> QED
  BY <1>1, <1>3, <1>4, EndKeepsInv

LEMMA LlmNextInv == LlmInv /\ [LlmNext]_llmVars => LlmInv'
<1> SUFFICES ASSUME LlmInv, [LlmNext]_llmVars PROVE LlmInv'
  OBVIOUS
<1> USE DelayBounds
<1>1. CASE StartAnalyze
  <2>1. asked = <<>> /\ clock = 0 /\ attempt = 0
    BY <1>1 DEF StartAnalyze, LlmInv, Quiet
  <2> QED
    BY <1>1, <2>1
    DEF StartAnalyze, LlmInv, LlmTypes, Quiet, CallKind, AtPrimary, AtFallback,
        RequestsBounded, CallBounded, builtVars, callVars
<1>2. CASE OpenRouterStep
  BY <1>2, OpenRouterKeepsInv
<1>3. CASE CallStep
  BY <1>3, CallKeepsInv
<1>4. CASE BreakerHalfOpens
  BY <1>4
  DEF BreakerHalfOpens, LlmInv, LlmTypes, Quiet, CallKind, AtPrimary, AtFallback,
      RequestsBounded, CallBounded, builtVars, callVars
<1>5. CASE TakeReply
  <2>1. llm = "idle"
    BY <1>5 DEF TakeReply, LlmInv, Quiet
  <2> QED
    BY <1>5, <2>1
    DEF TakeReply, LlmInv, LlmTypes, Quiet, CallKind, AtPrimary, AtFallback,
        RequestsBounded, CallBounded, builtVars
<1>6. CASE UNCHANGED llmVars
  BY <1>6
  DEF llmVars, LlmInv, LlmTypes, Quiet, CallKind, AtPrimary, AtFallback,
      RequestsBounded, CallBounded
<1> QED
  BY <1>1, <1>2, <1>3, <1>4, <1>5, <1>6 DEF LlmNext

THEOREM LlmInvariant == LlmSpec => []LlmInv
BY LlmInitInv, LlmNextInv, PTL DEF LlmSpec

(* A call to OpenRouter asks the primary model at most twice and each      *)
(* fallback model at most once, in order, however long the chain is.       *)
THEOREM RequestsAreBounded == LlmSpec => []RequestsBounded
<1>1. LlmInv => RequestsBounded
  BY DEF LlmInv
<1> QED
  BY <1>1, LlmInvariant, PTL

(* And it ends within one request of the chain's deadline.                 *)
THEOREM CallIsBounded == LlmSpec => []CallBounded
<1>1. LlmInv => CallBounded
  BY DEF LlmInv
<1> QED
  BY <1>1, LlmInvariant, PTL

-----------------------------------------------------------------------------
(* What the caller reads.                                                  *)

(* A result without a reason carries an analysis; every other reply has    *)
(* none.                                                                   *)
ReplyFacts ==
  /\ reply.kind \in {"none", "result", "error"}
  /\ reply.kind = "error" => reply.analysis = NoAnalysis
  /\ reply.kind = "result" =>
       IF reply.reason = "none" THEN reply.analysis \in Analyses ELSE reply.analysis = NoAnalysis

(* What a text is answered with.                                           *)
LEMMA AnswerFacts ==
  ASSUME NEW t, Answer(t)
  PROVE  ReplyFacts' /\ (reply'.kind = "error" => reply'.reason = "schema")
<1>1. Parsed(t) \in {"empty_response", "analysis", "throws", "unparseable_response"}
  BY DEF Parsed
<1> QED
  BY <1>1 DEF Answer, Return, Throw, ReplyFacts

LEMMA ReplyStep ==
  ASSUME ReplyFacts, [LlmNext]_llmVars
  PROVE  ReplyFacts'
<1>1. CASE UNCHANGED reply
  BY <1>1 DEF ReplyFacts
<1>2. ASSUME NEW t, Answer(t) PROVE ReplyFacts'
  BY <1>2, AnswerFacts
<1>3. ASSUME NEW why, Throw(why) PROVE ReplyFacts'
  BY <1>3 DEF Throw, ReplyFacts
<1>4. ASSUME NEW why \in {"provider_unavailable", "timeout", "circuit_breaker_open"},
             Return(NoAnalysis, why)
      PROVE  ReplyFacts'
  BY <1>4 DEF Return, ReplyFacts
<1>5. CASE TakeReply
  BY <1>5 DEF TakeReply, NoReply, ReplyFacts
<1>6. CASE OpenRouterStep
  BY <1>1, <1>2, <1>3, <1>6
  DEF OpenRouterStep, RateLimited, RateLimitedAgain, PrimaryFails, PrimaryAnswers,
      FallbackRateLimited, FallbackFails, FallbackAnswers, FallbackGivesUp
<1>7. CASE CallStep
  BY <1>2, <1>3, <1>4, <1>7
  DEF CallStep, SingleAnswers, SingleFails, BedrockAnswers, BedrockUnavailable,
      BedrockTimesOut, BedrockFails, GeminiRejected, GeminiAnswers, GeminiTimesOut, GeminiFails
<1> QED
  BY <1>1, <1>5, <1>6, <1>7 DEF LlmNext, StartAnalyze, BreakerHalfOpens, llmVars

-----------------------------------------------------------------------------
(* The chain where it is wired.                                            *)

(* The provider was built with the fallback options, and only OpenRouter   *)
(* is at one of its awaits.                                                *)
ChainWired ==
  /\ fallbacks = Fallbacks(provider, TRUE)
  /\ llm \in {"primary", "fallback"} => provider \in ChatProviders

LEMMA ChainWiredStep ==
  ASSUME ChainWired, [LlmNext]_llmVars
  PROVE  ChainWired'
<1>1. UNCHANGED builtVars
  BY DEF LlmNext, StartAnalyze, OpenRouterStep, RateLimited, RateLimitedAgain, PrimaryFails,
         PrimaryAnswers, FallbackRateLimited, FallbackFails, FallbackAnswers, FallbackGivesUp,
         CallStep, SingleAnswers, SingleFails, BedrockAnswers, BedrockUnavailable,
         BedrockTimesOut, BedrockFails, GeminiRejected, GeminiAnswers, GeminiTimesOut,
         GeminiFails, BreakerHalfOpens, TakeReply, llmVars, builtVars
<1>2. CASE llm' \in {"primary", "fallback"} => llm \in {"primary", "fallback"}
  BY <1>1, <1>2 DEF ChainWired, builtVars
<1>3. CASE StartAnalyze
  BY <1>1, <1>3 DEF StartAnalyze, ChainWired, builtVars
<1>4. ASSUME NEW t, Answer(t) PROVE llm' = "idle"
  BY <1>4, AnswerEnds
<1>5. CASE OpenRouterStep
  BY <1>2, <1>5
  DEF OpenRouterStep, RateLimited, RateLimitedAgain, PrimaryFails, PrimaryAnswers, MayHop,
      FallbackRateLimited, FallbackFails, FallbackAnswers, FallbackGivesUp
<1>6. CASE CallStep
  BY <1>2, <1>4, <1>6
  DEF CallStep, SingleAnswers, SingleFails, BedrockAnswers, BedrockUnavailable,
      BedrockTimesOut, BedrockFails, GeminiRejected, GeminiAnswers, GeminiTimesOut, GeminiFails,
      Return, Throw
<1> QED
  BY <1>2, <1>3, <1>5, <1>6 DEF LlmNext, BreakerHalfOpens, TakeReply, llmVars

(* A call that asked the primary model and the whole chain asked them all. *)
LEMMA AllAsked ==
  ASSUME LlmInv, ChainWired, provider \in ChatProviders, UNCHANGED builtVars,
         RequestsBounded', asked' \in Seq(STRING), Len(asked') = Len(fallbacks) + 2
  PROVE  FallbackTried'
<1>1. fallbacks = Chain /\ Chain \in Seq(STRING) /\ Len(Chain) \in Nat
  BY ChainElements DEF ChainWired, Fallbacks
<1>2. SUFFICES ASSUME NEW i \in DOMAIN Configured
               PROVE  \E j \in DOMAIN asked' : asked'[j] = Configured[i]
  BY DEF FallbackTried
<1>3. CASE Configured[i] = Primary
  <2>1. 1 \in DOMAIN asked' /\ asked'[1] = Primary
    BY <1>1 DEF RequestsBounded
  <2> QED  BY <1>3, <2>1
<1>4. CASE Configured[i] # Primary
  <2>1. PICK k \in DOMAIN Chain : Chain[k] = Configured[i]
    BY <1>4, ChainElements
  <2>2. k \in 1..Len(Chain) /\ k + 2 \in DOMAIN asked' /\ k + 2 > 2 /\ (k + 2) - 2 = k
    BY <1>1
  <2>3. asked'[k + 2] = Chain[k]
    BY <1>1, <2>2 DEF RequestsBounded, builtVars
  <2> QED  BY <2>1, <2>2, <2>3
<1> QED  BY <1>3, <1>4

LEMMA TriedStep ==
  ASSUME LlmInv, ChainWired, FallbackTried, [LlmNext]_llmVars
  PROVE  FallbackTried'
<1>1. ASSUME reply'.kind # "error" \/ reply'.reason # "rate_limited" PROVE FallbackTried'
  BY <1>1 DEF FallbackTried
<1>2. ASSUME NEW t, Answer(t) PROVE FallbackTried'
  BY <1>1, <1>2, AnswerFacts
<1>3. ASSUME NEW why \in {"failed", "deadline"}, Throw(why) PROVE FallbackTried'
  BY <1>1, <1>3 DEF Throw
<1>4. ASSUME NEW a, NEW why, Return(a, why) PROVE FallbackTried'
  BY <1>1, <1>4 DEF Return
<1>5. CASE UNCHANGED <<reply, asked>>
  BY <1>5 DEF FallbackTried
<1>6. CASE RateLimitedAgain
  <2>1. CASE fallbacks # <<>>
    <3>1. reply'.kind = "none"
      BY <1>6, <2>1 DEF RateLimitedAgain, LlmInv, Quiet
    <3> QED  BY <1>1, <3>1
  <2>2. CASE fallbacks = <<>>
    <3>1. PICK d \in Delays : Ask(Primary, d)
      BY <1>6 DEF RateLimitedAgain
    <3>2. llm = "primary" /\ attempt = 1 /\ UNCHANGED builtVars
      BY <1>6 DEF RateLimitedAgain
    <3>3. RequestsBounded' /\ asked' \in Seq(STRING) /\ Len(asked') = 2
      BY <3>1, <3>2, PrimaryAsked
    <3>4. provider \in ChatProviders /\ Len(fallbacks) = 0
      BY <2>2, <3>2 DEF ChainWired
    <3> QED  BY <3>2, <3>3, <3>4, AllAsked
  <2> QED  BY <2>1, <2>2
<1>7. CASE FallbackGivesUp
  <2>1. CASE hop <= Len(fallbacks)
    BY <1>3, <1>7, <2>1 DEF FallbackGivesUp
  <2>2. CASE ~(hop <= Len(fallbacks))
    <3>1. llm = "fallback" /\ UNCHANGED <<builtVars, asked>>
      BY <1>7 DEF FallbackGivesUp
    <3>2. Len(asked) = Len(fallbacks) + 2 /\ asked \in Seq(STRING)
      BY <2>2, <3>1 DEF LlmInv, AtFallback, LlmTypes
    <3>3. RequestsBounded'
      BY <3>1 DEF LlmInv, RequestsBounded, builtVars
    <3>4. provider \in ChatProviders
      BY <3>1 DEF ChainWired
    <3> QED  BY <3>1, <3>2, <3>3, <3>4, AllAsked
  <2> QED  BY <2>1, <2>2
<1>8. CASE RateLimited \/ FallbackRateLimited
  <2>1. reply'.kind = "none"
    BY <1>8 DEF RateLimited, FallbackRateLimited, MayHop, LlmInv, Quiet
  <2> QED  BY <1>1, <2>1
<1>9. CASE PrimaryFails \/ PrimaryAnswers \/ FallbackFails \/ FallbackAnswers
  BY <1>2, <1>3, <1>9 DEF PrimaryFails, PrimaryAnswers, FallbackFails, FallbackAnswers
<1>10. CASE CallStep
  BY <1>2, <1>3, <1>4, <1>10
  DEF CallStep, SingleAnswers, SingleFails, BedrockAnswers, BedrockUnavailable,
      BedrockTimesOut, BedrockFails, GeminiRejected, GeminiAnswers, GeminiTimesOut, GeminiFails
<1>11. CASE TakeReply
  BY <1>1, <1>11 DEF TakeReply, NoReply
<1> QED
  BY <1>5, <1>6, <1>7, <1>8, <1>9, <1>10, <1>11
  DEF LlmNext, OpenRouterStep, StartAnalyze, BreakerHalfOpens, llmVars

(* CHANGELOG.md's promise holds of a provider that was given the fallback  *)
(* options: a rate limited call has asked every model of the setting.  So  *)
(* what refutes it in general is the wiring of the composition roots alone.*)
THEOREM WiredChainIsTried ==
  ASSUME Wirings = {TRUE}
  PROVE  LlmSpec => []FallbackTried
<1>1. LlmInit => ChainWired /\ FallbackTried
  BY DEF LlmInit, ChainWired, FallbackTried, NoReply
<1>2. LlmInv /\ ChainWired /\ FallbackTried /\ [LlmNext]_llmVars => ChainWired' /\ FallbackTried'
  BY ChainWiredStep, TriedStep
<1> QED  BY <1>1, <1>2, LlmInvariant, PTL DEF LlmSpec
=============================================================================
