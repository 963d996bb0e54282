--------------------------- MODULE StructuredCall ---------------------------
(***************************************************************************)
(* BaseLLMProvider.structured_call of llm/base.py, the one way the program *)
(* calls a model in real time: a tenacity retry loop around the provider's *)
(* _execute, then the extraction and validation of the tool call.          *)
(*                                                                         *)
(* What each provider retries is its _is_retryable_exception.  The SDKs    *)
(* (external) retry the same kinds of failure inside one _execute, unless  *)
(* told not to: the Bedrock client is, with retries max_attempts 0.        *)
(***************************************************************************)
EXTENDS Naturals

CONSTANTS Callers,         \* threads inside structured_call at the same time
          Providers,       \* the provider of each caller is one of these
          RetrySettings,   \* the values config.LLM_MAX_RETRIES may have
          SdkRetries       \* max_retries of the Anthropic and OpenAI clients

AllProviders == {"anthropic", "bedrock", "openrouter"}

ASSUME CallAssumption ==
    Providers \subseteq AllProviders /\ RetrySettings \subseteq Nat /\ SdkRetries \in Nat

VARIABLES maxRetries, \* config.LLM_MAX_RETRIES, read from the environment at startup
          provider,   \* the provider a caller uses
          pc,         \* "start", "execute", "backoff", "parse", "returned" or "raised"
          attempt,    \* tenacity's attempt_number
          inner,      \* retries the SDK has made within this attempt
          sent,       \* requests sent in all
          last,       \* how the last request ended
          error       \* class of the exception structured_call raised

vars == <<maxRetries, provider, pc, attempt, inner, sent, last, error>>

-----------------------------------------------------------------------------
(* Failures of one request, as the SDKs report them: too many requests, no *)
(* connection, no answer in time, 5xx, 408 or 409 ("conflict", which the   *)
(* Anthropic and OpenAI clients retry like the others although no provider *)
(* here does), and any other refusal.                                      *)
Failures == {"rate_limit", "no_connection", "read_timeout", "server_error", "conflict",
             "refused"}

(* Each provider's _is_retryable_exception.  anthropic and openai name the *)
(* four classes; botocore's ReadTimeoutError is neither a botocore         *)
(* ConnectionError nor a ClientError.                                      *)
AnthropicRetryable == {"rate_limit", "no_connection", "read_timeout", "server_error"}

BedrockRetryable == {"no_connection"} \cup {"rate_limit", "server_error"}

OpenRouterRetryable == {"rate_limit", "no_connection", "read_timeout", "server_error"}

Retryable(p) ==
    CASE p = "anthropic"  -> AnthropicRetryable
      [] p = "bedrock"    -> BedrockRetryable
      [] p = "openrouter" -> OpenRouterRetryable

(* What an answered request holds: arguments of the shape that was asked   *)
(* for or not, no call of the tool, and for OpenRouter also arguments that *)
(* are no JSON, an empty list of choices, or null in place of the list.    *)
Answers == {"answer", "bad_schema", "no_tool_call", "bad_json", "no_choice", "null_choices"}

AnswersOf(p) ==
    IF p = "openrouter" THEN Answers ELSE {"answer", "bad_schema", "no_tool_call"}

(* What choices[0] raises on an empty list, and on None. *)
LookupErrors == {"IndexError", "TypeError"}

(* Each provider's _extract_tool_input: the arguments of the tool call,    *)
(* "None", or the class of what choices[0] raises.                         *)
AnthropicToolInput(answer) == IF answer = "no_tool_call" THEN "None" ELSE answer

BedrockToolInput(answer) == IF answer = "no_tool_call" THEN "None" ELSE answer

OpenRouterToolInput(answer) ==
    CASE answer = "no_choice"                     -> "IndexError"
      [] answer = "null_choices"                  -> "TypeError"
      [] answer \in {"no_tool_call", "bad_json"} -> "None"
      [] OTHER                                    -> answer

ToolInput(p, answer) ==
    CASE p = "anthropic"  -> AnthropicToolInput(answer)
      [] p = "bedrock"    -> BedrockToolInput(answer)
      [] p = "openrouter" -> OpenRouterToolInput(answer)

Validates(toolInput) == toolInput = "answer"

\* Faulty variant of InnerRetries: the Bedrock client is built without its Config.
InnerRetriesEverywhere(p) == SdkRetries

InnerRetries(p) == IF p = "bedrock" THEN 0 ELSE SdkRetries

\* stop_after_attempt compares after the attempt: 0 still makes one.
Attempts == IF maxRetries = 0 THEN 1 ELSE maxRetries

TypeOK ==
    /\ maxRetries \in RetrySettings
    /\ provider \in [Callers -> Providers]
    /\ pc \in [Callers -> {"start", "execute", "backoff", "parse", "returned", "raised"}]
    /\ attempt \in [Callers -> 0..Attempts]
    /\ inner \in [Callers -> 0..SdkRetries]
    /\ sent \in [Callers -> Nat]
    /\ last \in [Callers -> Failures \cup Answers \cup {"none"}]
    /\ error \in [Callers -> {"none", "StructuredCallError", "provider error"}
                             \cup LookupErrors]

Init ==
    /\ maxRetries \in RetrySettings
    /\ provider \in [Callers -> Providers]
    /\ pc = [c \in Callers |-> "start"]
    /\ attempt = [c \in Callers |-> 0]
    /\ inner = [c \in Callers |-> 0]
    /\ sent = [c \in Callers |-> 0]
    /\ last = [c \in Callers |-> "none"]
    /\ error = [c \in Callers |-> "none"]

-----------------------------------------------------------------------------
\* Faulty variant of Attempt: a rate-limited caller sleeps for ever.
AttemptParked(c) ==
    /\ pc[c] \in {"start", "backoff"}
    /\ IF last[c] = "rate_limit" THEN UNCHANGED <<pc, attempt, inner>>
       ELSE /\ pc' = [pc EXCEPT ![c] = "execute"]
            /\ attempt' = [attempt EXCEPT ![c] = @ + 1]
            /\ inner' = [inner EXCEPT ![c] = 0]
    /\ UNCHANGED <<maxRetries, provider, sent, last, error>>

\* The retryer calls _execute, at first or after it has slept.
Attempt(c) ==
    /\ pc[c] \in {"start", "backoff"}
    /\ pc' = [pc EXCEPT ![c] = "execute"]
    /\ attempt' = [attempt EXCEPT ![c] = @ + 1]
    /\ inner' = [inner EXCEPT ![c] = 0]
    /\ UNCHANGED <<maxRetries, provider, sent, last, error>>

Answered(c) ==
    /\ pc[c] = "execute"
    /\ \E a \in AnswersOf(provider[c]) : last' = [last EXCEPT ![c] = a]
    /\ sent' = [sent EXCEPT ![c] = @ + 1]
    /\ pc' = [pc EXCEPT ![c] = "parse"]
    /\ UNCHANGED <<maxRetries, provider, attempt, inner, error>>

\* The request fails and the SDK sends it again.
SdkRetry(c) ==
    /\ pc[c] = "execute"
    /\ inner[c] < InnerRetries(provider[c])
    /\ \E f \in Failures \ {"refused"} : last' = [last EXCEPT ![c] = f]
    /\ inner' = [inner EXCEPT ![c] = @ + 1]
    /\ sent' = [sent EXCEPT ![c] = @ + 1]
    /\ UNCHANGED <<maxRetries, provider, pc, attempt, error>>

\* Faulty variant of TriesAgain: LLM_MAX_RETRIES counts the retries and not the
\* attempts.
TriesAgainOnceMore(c, failure) ==
    failure \in Retryable(provider[c]) /\ attempt[c] <= Attempts

TriesAgain(c, failure) == failure \in Retryable(provider[c]) /\ attempt[c] < Attempts

\* Faulty variant of ErrorOf: a re-raised failure is not wrapped.
ErrorOfUnwrapped(c, failure) == "provider error"

\* reraise=True; structured_call wraps what is retryable.
ErrorOf(c, failure) ==
    IF failure \in Retryable(provider[c]) THEN "StructuredCallError" ELSE "provider error"

Raise(c, class) ==
    /\ pc' = [pc EXCEPT ![c] = "raised"]
    /\ error' = [error EXCEPT ![c] = class]

\* The request fails for good as far as the SDK goes: tenacity sleeps or
\* re-raises the exception.
Fails(c) ==
    /\ pc[c] = "execute"
    /\ \E f \in Failures :
         /\ f # "refused" => inner[c] = InnerRetries(provider[c])
         /\ last' = [last EXCEPT ![c] = f]
         /\ IF TriesAgain(c, f)
            THEN pc' = [pc EXCEPT ![c] = "backoff"] /\ UNCHANGED error
            ELSE Raise(c, ErrorOf(c, f))
    /\ sent' = [sent EXCEPT ![c] = @ + 1]
    /\ UNCHANGED <<maxRetries, provider, attempt, inner>>

\* _extract_tool_input and model_validate, outside the retry loop.
Parse(c) ==
    LET toolInput == ToolInput(provider[c], last[c]) IN
    /\ pc[c] = "parse"
    /\ IF Validates(toolInput)
       THEN pc' = [pc EXCEPT ![c] = "returned"] /\ UNCHANGED error
       ELSE Raise(c, IF toolInput \in LookupErrors THEN toolInput ELSE "StructuredCallError")
    /\ UNCHANGED <<maxRetries, provider, attempt, inner, sent, last>>

CallStep(c) == Attempt(c) \/ Answered(c) \/ SdkRetry(c) \/ Fails(c) \/ Parse(c)

Ended == (\A c \in Callers : pc[c] \in {"returned", "raised"}) /\ UNCHANGED vars

Next == Ended \/ \E c \in Callers : CallStep(c)

Spec == Init /\ [][Next]_vars

\* Every request ends within LLM_TIMEOUT_SECONDS and every sleep within
\* LLM_RETRY_MAX_WAIT_SECONDS.
FairSpec == Spec /\ \A c \in Callers : WF_vars(CallStep(c))

-----------------------------------------------------------------------------
(* Properties *)

\* The two retry loops together cost no more than their product, also when
\* LLM_MAX_RETRIES is 0, and for Bedrock no more than tenacity's attempts: this
\* bounds the load and, with the timeouts, the time one node can take.
RequestsBounded ==
    \A c \in Callers :
        /\ attempt[c] <= Attempts
        /\ provider[c] = "bedrock" => sent[c] <= attempt[c]
        /\ sent[c] <= attempt[c] * (1 + SdkRetries)

\* A call is given up on a failure its provider calls retryable only after all
\* the attempts.  The class of the exception tells the two kinds of failure
\* apart; of the answers that cannot be used only an OpenRouter answer without
\* choices, be the list empty or null, is not reported as a StructuredCallError.  A value is
\* returned only if it was extracted from an answer of the right shape, and
\* such an answer is never thrown away.
EndsTruthfully ==
    \A c \in Callers :
        /\ pc[c] = "raised" =>
              /\ last[c] \in Retryable(provider[c]) =>
                    attempt[c] = Attempts /\ error[c] = "StructuredCallError"
              /\ error[c] = "provider error" <=> last[c] \in Failures \ Retryable(provider[c])
              /\ error[c] \in LookupErrors <=> last[c] \in {"no_choice", "null_choices"}
        /\ pc[c] = "returned" => last[c] = "answer" /\ error[c] = "none"
        /\ last[c] = "answer" => pc[c] \in {"parse", "returned"}

\* Every call returns or raises.
CallEnds == \A c \in Callers : <>(pc[c] \in {"returned", "raised"})

\* The technical document: all providers share a "retry/backoff (tenacity,
\* exponential backoff on rate limits/timeouts/5xx)".
TimeoutsAreRetried ==
    \A c \in Callers : pc[c] = "raised" /\ last[c] = "read_timeout" => attempt[c] = Attempts
=============================================================================
