------------------------ MODULE StructuredCallProofs ------------------------
(***************************************************************************)
(* Theorems about StructuredCall for any number of callers, any retry      *)
(* settings and any number of retries of the SDKs.                         *)
(*                                                                         *)
(* RequestsBounded is not inductive: while an attempt is under way it has  *)
(* used as many requests as the SDK has retried, plus those of the         *)
(* attempts before it.  Budget keeps that account.                         *)
(***************************************************************************)
EXTENDS StructuredCall, TLAPS

\* The requests one attempt may send.
PerAttempt(c) == 1 + InnerRetries(provider[c])

\* Where caller c stands, and the account of its requests.
Budget(c) ==
    /\ inner[c] <= InnerRetries(provider[c])
    /\ pc[c] = "start" => attempt[c] = 0 /\ sent[c] = 0
    /\ pc[c] # "start" => attempt[c] >= 1
    /\ pc[c] = "backoff" => attempt[c] < Attempts
    /\ pc[c] = "execute" => sent[c] <= (attempt[c] - 1) * PerAttempt(c) + inner[c]
    /\ pc[c] # "execute" => sent[c] <= attempt[c] * PerAttempt(c)

\* What the last request says about how the call ends.
Outcome(c) ==
    /\ pc[c] \in {"start", "execute", "backoff"} => last[c] \in Failures \cup {"none"}
    /\ pc[c] = "parse" => last[c] \in AnswersOf(provider[c])
    /\ error[c] # "none" <=> pc[c] = "raised"
    /\ pc[c] = "returned" => last[c] = "answer"
    /\ pc[c] = "raised" =>
          /\ last[c] # "answer"
          /\ last[c] \in Retryable(provider[c]) =>
                attempt[c] = Attempts /\ error[c] = "StructuredCallError"
          /\ error[c] = "provider error" <=> last[c] \in Failures \ Retryable(provider[c])
          /\ error[c] \in LookupErrors <=> last[c] \in {"no_choice", "null_choices"}

IInv == TypeOK /\ \A c \in Callers : Budget(c) /\ Outcome(c)

-----------------------------------------------------------------------------
\* What a provider retries are failures, and extraction tells the usable answer
\* from the others.
LEMMA ProviderFacts ==
  ASSUME NEW p \in Providers
  PROVE  /\ Retryable(p) \subseteq Failures
         /\ AnswersOf(p) \subseteq Answers
         /\ InnerRetries(p) \in 0..SdkRetries
         /\ \A a \in AnswersOf(p) : /\ Validates(ToolInput(p, a)) <=> a = "answer"
                                    /\ ToolInput(p, a) \in LookupErrors <=>
                                          a \in {"no_choice", "null_choices"}
<1>1. p \in {"anthropic", "bedrock", "openrouter"}
  BY CallAssumption DEF AllProviders
<1>2. CASE p = "anthropic"
  BY <1>2, CallAssumption
  DEF Retryable, AnthropicRetryable, Failures, Answers, AnswersOf, InnerRetries,
      Validates, ToolInput, AnthropicToolInput, LookupErrors
<1>3. CASE p = "bedrock"
  BY <1>3, CallAssumption
  DEF Retryable, BedrockRetryable, Failures, Answers, AnswersOf, InnerRetries,
      Validates, ToolInput, BedrockToolInput, LookupErrors
<1>4. CASE p = "openrouter"
  BY <1>4, CallAssumption
  DEF Retryable, OpenRouterRetryable, Failures, Answers, AnswersOf, InnerRetries,
      Validates, ToolInput, OpenRouterToolInput, LookupErrors
<1> QED
  BY <1>1, <1>2, <1>3, <1>4

\* There is at least one attempt, also when LLM_MAX_RETRIES is 0.
LEMMA AttemptsPositive == maxRetries \in RetrySettings => Attempts \in Nat /\ Attempts >= 1
  BY CallAssumption DEF Attempts

\* The invariant holds before the first request.
LEMMA InitIInv == Init => IInv
<1> SUFFICES ASSUME Init PROVE IInv
  OBVIOUS
<1>1. TypeOK
  BY AttemptsPositive, CallAssumption DEF Init, TypeOK
<1>2. ASSUME NEW c \in Callers PROVE Budget(c)
  <2>1. InnerRetries(provider[c]) \in Nat
    BY ProviderFacts, CallAssumption DEF Init
  <2> QED
    BY <2>1 DEF Init, Budget, PerAttempt
<1>3. ASSUME NEW c \in Callers PROVE Outcome(c)
  BY DEF Init, Outcome, LookupErrors
<1> QED
  BY <1>1, <1>2, <1>3 DEF IInv

\* The values of one caller, and where it may begin an attempt.
LEMMA CallerValues ==
  ASSUME IInv, NEW c \in Callers
  PROVE  /\ provider[c] \in Providers
         /\ Attempts \in Nat /\ attempt[c] \in 0..Attempts
         /\ inner[c] \in 0..SdkRetries /\ sent[c] \in Nat
         /\ InnerRetries(provider[c]) \in 0..SdkRetries
         /\ pc[c] \in {"start", "backoff"} => attempt[c] < Attempts
<1>1. /\ provider[c] \in Providers
      /\ Attempts \in Nat /\ Attempts >= 1 /\ attempt[c] \in 0..Attempts
      /\ inner[c] \in 0..SdkRetries /\ sent[c] \in Nat
  BY AttemptsPositive DEF IInv, TypeOK
<1>2. pc[c] = "start" => attempt[c] = 0
  BY DEF IInv, Budget
<1>3. pc[c] = "backoff" => attempt[c] < Attempts
  BY DEF IInv, Budget
<1> QED
  BY <1>1, <1>2, <1>3, ProviderFacts

\* No step changes the settings.
LEMMA SettingsFixed ==
  [Next]_vars => maxRetries' = maxRetries /\ provider' = provider /\ Attempts' = Attempts
  BY DEF Next, CallStep, Attempt, Answered, SdkRetry, Fails, Parse, Ended, vars, Attempts

\* Every step keeps the types; Budget keeps attempt and inner in their ranges.
LEMMA TypeStep == IInv /\ [Next]_vars => TypeOK'
<1> SUFFICES ASSUME IInv, [Next]_vars PROVE TypeOK'
  OBVIOUS
<1>1. /\ maxRetries' \in RetrySettings /\ provider' \in [Callers -> Providers]
      /\ Attempts' = Attempts
  BY SettingsFixed DEF IInv, TypeOK
<1> DEFINE Typed == /\ pc' \in [Callers -> {"start", "execute", "backoff", "parse", "returned", "raised"}]
                    /\ attempt' \in [Callers -> 0..Attempts]
                    /\ inner' \in [Callers -> 0..SdkRetries]
                    /\ sent' \in [Callers -> Nat]
                    /\ last' \in [Callers -> Failures \cup Answers \cup {"none"}]
                    /\ error' \in [Callers -> {"none", "StructuredCallError", "provider error"} \cup LookupErrors]
<1>2. TypeOK
  BY DEF IInv
<1>3. ASSUME NEW c \in Callers, Attempt(c) PROVE Typed
  <2>1. attempt[c] + 1 \in 0..Attempts /\ 0 \in 0..SdkRetries
    BY <1>3, CallerValues, CallAssumption DEF Attempt
  <2> QED
    BY <1>2, <1>3, <2>1 DEF TypeOK, Attempt
<1>4. ASSUME NEW c \in Callers, Answered(c) PROVE Typed
  <2>1. AnswersOf(provider[c]) \subseteq Answers
    BY ProviderFacts, CallerValues
  <2>2. sent[c] + 1 \in Nat
    BY CallerValues
  <2> QED
    BY <1>2, <1>4, <2>1, <2>2 DEF TypeOK, Answered
<1>5. ASSUME NEW c \in Callers, SdkRetry(c) PROVE Typed
  <2>1. inner[c] + 1 \in 0..SdkRetries /\ sent[c] + 1 \in Nat
    BY <1>5, CallerValues, CallAssumption DEF SdkRetry
  <2> QED
    BY <1>2, <1>5, <2>1 DEF TypeOK, SdkRetry
<1>6. ASSUME NEW c \in Callers, Fails(c) PROVE Typed
  <2>1. sent[c] + 1 \in Nat
    BY CallerValues
  <2>2. PICK f \in Failures :
          /\ last' = [last EXCEPT ![c] = f]
          /\ IF TriesAgain(c, f)
             THEN pc' = [pc EXCEPT ![c] = "backoff"] /\ UNCHANGED error
             ELSE Raise(c, ErrorOf(c, f))
    BY <1>6 DEF Fails
  <2>3. ErrorOf(c, f) \in {"StructuredCallError", "provider error"}
    BY DEF ErrorOf
  <2>4. /\ pc' \in [Callers -> {"start", "execute", "backoff", "parse", "returned", "raised"}]
        /\ error' \in [Callers -> {"none", "StructuredCallError", "provider error"} \cup LookupErrors]
    BY <1>2, <2>2, <2>3 DEF TypeOK, Raise
  <2>5. /\ attempt' \in [Callers -> 0..Attempts] /\ inner' \in [Callers -> 0..SdkRetries]
        /\ sent' \in [Callers -> Nat]
    BY <1>2, <1>6, <2>1 DEF TypeOK, Fails
  <2>6. last' \in [Callers -> Failures \cup Answers \cup {"none"}]
    BY <1>2, <2>2 DEF TypeOK
  <2> QED
    BY <2>4, <2>5, <2>6
<1>7. ASSUME NEW c \in Callers, Parse(c) PROVE Typed
  <2> DEFINE toolInput == ToolInput(provider[c], last[c])
             class == IF toolInput \in LookupErrors THEN toolInput ELSE "StructuredCallError"
  <2>1. class \in {"none", "StructuredCallError", "provider error"} \cup LookupErrors
    OBVIOUS
  <2>2. \/ pc' = [pc EXCEPT ![c] = "returned"] /\ UNCHANGED error
        \/ Raise(c, class)
    BY <1>7 DEF Parse
  <2> HIDE DEF class
  <2>3. /\ pc' \in [Callers -> {"start", "execute", "backoff", "parse", "returned", "raised"}]
        /\ error' \in [Callers -> {"none", "StructuredCallError", "provider error"} \cup LookupErrors]
    BY <1>2, <2>1, <2>2 DEF TypeOK, Raise
  <2>4. /\ attempt' = attempt /\ inner' = inner /\ sent' = sent /\ last' = last
    BY <1>7 DEF Parse
  <2> QED
    BY <1>2, <2>3, <2>4 DEF TypeOK
<1>8. ASSUME UNCHANGED vars PROVE Typed
  BY <1>2, <1>8 DEF TypeOK, vars
<1>9. Typed
  BY <1>3, <1>4, <1>5, <1>6, <1>7, <1>8 DEF Next, CallStep, Ended
<1> QED
  BY <1>1, <1>9 DEF TypeOK

\* A step of one caller leaves the account of every other one alone.
LEMMA OthersUntouched ==
  ASSUME TypeOK, NEW c \in Callers, CallStep(c), NEW d \in Callers, d # c,
         Budget(d), Outcome(d)
  PROVE  Budget(d)' /\ Outcome(d)'
<1>1. /\ pc'[d] = pc[d] /\ attempt'[d] = attempt[d] /\ inner'[d] = inner[d]
      /\ sent'[d] = sent[d] /\ last'[d] = last[d] /\ error'[d] = error[d]
      /\ provider' = provider /\ maxRetries' = maxRetries
  <2>1. CASE Parse(c)
    <3>1. \E class : \/ pc' = [pc EXCEPT ![c] = "returned"] /\ UNCHANGED error
                     \/ Raise(c, class)
      BY <2>1 DEF Parse
    <3>2. UNCHANGED <<maxRetries, provider, attempt, inner, sent, last>>
      BY <2>1 DEF Parse
    <3> QED
      BY <3>1, <3>2 DEF TypeOK, Raise
  <2>2. CASE Attempt(c) \/ Answered(c) \/ SdkRetry(c)
    BY <2>2 DEF TypeOK, Attempt, Answered, SdkRetry
  <2>3. CASE Fails(c)
    <3>1. \E class : \/ pc' = [pc EXCEPT ![c] = "backoff"] /\ UNCHANGED error
                     \/ Raise(c, class)
      BY <2>3 DEF Fails
    <3>2. /\ \E f : last' = [last EXCEPT ![c] = f]
          /\ sent' = [sent EXCEPT ![c] = @ + 1]
          /\ UNCHANGED <<maxRetries, provider, attempt, inner>>
      BY <2>3 DEF Fails
    <3> QED
      BY <3>1, <3>2 DEF TypeOK, Raise
  <2> QED
    BY <2>1, <2>2, <2>3 DEF CallStep
<1> QED
  BY <1>1 DEF Budget, Outcome, PerAttempt, Attempts

\* Every step of a caller keeps its own account.
LEMMA BudgetStep ==
  ASSUME IInv, NEW c \in Callers, CallStep(c)
  PROVE  Budget(c)'
<1> DEFINE K == PerAttempt(c)
<1>1. /\ TypeOK /\ Budget(c) /\ Attempts \in Nat
      /\ provider' = provider /\ Attempts' = Attempts
  BY CallerValues, SettingsFixed DEF IInv, Next
<1>2. /\ K' = K /\ K \in Nat /\ K = 1 + InnerRetries(provider[c])
      /\ InnerRetries(provider[c]) \in Nat
  BY <1>1, CallerValues, CallAssumption DEF PerAttempt, InnerRetries
<1>3. attempt[c] \in Nat /\ inner[c] \in Nat /\ sent[c] \in Nat
  BY CallerValues, CallAssumption
<1>4. pc[c] = "execute" => sent[c] + 1 <= attempt[c] * K
  <2> HIDE DEF K
  <2> SUFFICES ASSUME pc[c] = "execute" PROVE sent[c] + 1 <= attempt[c] * K
    OBVIOUS
  <2>1. sent[c] <= (attempt[c] - 1) * K + inner[c] /\ inner[c] + 1 <= K
    BY <1>1, <1>2, <1>3 DEF Budget, K
  <2>2. (attempt[c] - 1) * K = attempt[c] * K - K
    BY <1>2, <1>3
  <2>3. attempt[c] * K \in Nat
    BY <1>2, <1>3
  <2> QED
    BY <1>2, <1>3, <2>1, <2>2, <2>3
<1>5. CASE Attempt(c)
  <2>1. /\ pc'[c] = "execute" /\ attempt'[c] = attempt[c] + 1
        /\ inner'[c] = 0 /\ sent'[c] = sent[c]
    BY <1>1, <1>5 DEF TypeOK, Attempt
  <2>2. sent[c] <= attempt[c] * K
    BY <1>1, <1>5 DEF Budget, Attempt
  <2>3. (attempt'[c] - 1) * K' + inner'[c] = attempt[c] * K
    <3> HIDE DEF K
    <3>1. attempt'[c] - 1 = attempt[c]
      BY <1>3, <2>1
    <3>2. attempt[c] * K \in Nat
      BY <1>2, <1>3
    <3> QED
      BY <1>2, <2>1, <3>1, <3>2
  <2> QED
    BY <1>1, <1>2, <1>3, <2>1, <2>2, <2>3 DEF Budget
<1>6. CASE Answered(c)
  <2>1. /\ pc[c] = "execute" /\ pc'[c] = "parse" /\ attempt'[c] = attempt[c]
        /\ inner'[c] = inner[c] /\ sent'[c] = sent[c] + 1
    BY <1>1, <1>6 DEF TypeOK, Answered
  <2> QED
    BY <1>1, <1>2, <1>3, <1>4, <2>1 DEF Budget
<1>7. CASE SdkRetry(c)
  <2>1. /\ pc[c] = "execute" /\ pc'[c] = "execute" /\ attempt'[c] = attempt[c]
        /\ inner[c] < InnerRetries(provider[c])
        /\ inner'[c] = inner[c] + 1 /\ sent'[c] = sent[c] + 1
    BY <1>1, <1>7 DEF TypeOK, SdkRetry
  <2>2. sent'[c] <= (attempt'[c] - 1) * K' + inner'[c]
    <3>1. (attempt[c] - 1) * K \in Nat
      <4> HIDE DEF K
      <4>1. attempt[c] - 1 \in Nat
        BY <1>1, <1>3, <2>1 DEF Budget
      <4> QED
        BY <1>2, <4>1
    <3> QED
      BY <1>1, <1>2, <1>3, <2>1, <3>1 DEF Budget
  <2> QED
    BY <1>1, <1>2, <1>3, <2>1, <2>2 DEF Budget
<1>8. CASE Fails(c)
  <2>1. /\ pc[c] = "execute" /\ attempt'[c] = attempt[c]
        /\ inner'[c] = inner[c] /\ sent'[c] = sent[c] + 1
        /\ pc'[c] \in {"backoff", "raised"}
        /\ pc'[c] = "backoff" => attempt[c] < Attempts
    BY <1>1, <1>8 DEF TypeOK, Fails, Raise, TriesAgain
  <2> QED
    BY <1>1, <1>2, <1>3, <1>4, <2>1 DEF Budget
<1>9. CASE Parse(c)
  <2>1. /\ pc[c] = "parse" /\ attempt'[c] = attempt[c] /\ inner'[c] = inner[c]
        /\ sent'[c] = sent[c] /\ pc'[c] \in {"returned", "raised"}
    BY <1>1, <1>9 DEF TypeOK, Parse, Raise
  <2> QED
    BY <1>1, <1>2, <1>3, <2>1 DEF Budget
<1> QED
  BY <1>5, <1>6, <1>7, <1>8, <1>9 DEF CallStep

\* Every step of a caller keeps what its last request says.
LEMMA OutcomeStep ==
  ASSUME IInv, NEW c \in Callers, CallStep(c)
  PROVE  Outcome(c)'
<1>1. /\ TypeOK /\ Outcome(c) /\ Attempts \in Nat /\ attempt[c] \in 0..Attempts
      /\ Attempts' = Attempts /\ provider' = provider
  BY CallerValues, SettingsFixed DEF IInv, Next
<1>2. /\ Retryable(provider[c]) \subseteq Failures
      /\ AnswersOf(provider[c]) \subseteq Answers
      /\ \A a \in AnswersOf(provider[c]) :
            /\ Validates(ToolInput(provider[c], a)) <=> a = "answer"
            /\ ToolInput(provider[c], a) \in LookupErrors <=> a \in {"no_choice", "null_choices"}
  BY <1>1, ProviderFacts DEF TypeOK
<1>3. CASE Attempt(c)
  BY <1>1, <1>3 DEF TypeOK, Outcome, Attempt
<1>4. CASE Answered(c)
  BY <1>1, <1>4 DEF TypeOK, Outcome, Answered
<1>5. CASE SdkRetry(c)
  BY <1>1, <1>5 DEF TypeOK, Outcome, SdkRetry
<1>6. CASE Fails(c)
  <2>1. PICK f \in Failures :
          /\ last' = [last EXCEPT ![c] = f]
          /\ IF TriesAgain(c, f)
             THEN pc' = [pc EXCEPT ![c] = "backoff"] /\ UNCHANGED error
             ELSE Raise(c, ErrorOf(c, f))
    BY <1>6 DEF Fails
  <2>2. last'[c] = f /\ f \notin {"answer", "no_choice", "null_choices"} /\ attempt' = attempt
    BY <1>1, <1>6, <2>1 DEF TypeOK, Failures, Fails
  <2>3. CASE TriesAgain(c, f)
    BY <1>1, <1>6, <2>1, <2>2, <2>3 DEF TypeOK, Outcome, Fails
  <2>4. CASE ~TriesAgain(c, f)
    <3>1. /\ pc'[c] = "raised" /\ error'[c] = ErrorOf(c, f)
          /\ f \in Retryable(provider[c]) => attempt[c] = Attempts
      <4>1. Raise(c, ErrorOf(c, f))
        BY <2>1, <2>4
      <4>2. ~(f \in Retryable(provider[c]) /\ attempt[c] < Attempts)
        BY <2>4 DEF TriesAgain
      <4>3. pc'[c] = "raised" /\ error'[c] = ErrorOf(c, f)
        BY <1>1, <4>1 DEF TypeOK, Raise
      <4> QED
        BY <1>1, <4>2, <4>3
    <3> QED
      BY <1>1, <2>2, <3>1 DEF Outcome, ErrorOf, LookupErrors
  <2> QED
    BY <2>3, <2>4
<1>7. CASE Parse(c)
  <2> DEFINE toolInput == ToolInput(provider[c], last[c])
  <2>1. pc[c] = "parse" /\ last' = last /\ last[c] \in AnswersOf(provider[c])
    BY <1>1, <1>7 DEF Outcome, Parse
  <2>2. last[c] \notin Failures /\ last[c] # "none"
    BY <1>2, <2>1 DEF Answers, Failures
  <2>3. CASE Validates(toolInput)
    <3>1. last[c] = "answer" /\ pc'[c] = "returned" /\ error' = error
      BY <1>1, <1>2, <1>7, <2>1, <2>3 DEF TypeOK, Parse
    <3> QED
      BY <1>1, <2>1, <3>1 DEF Outcome
  <2>4. CASE ~Validates(toolInput)
    <3>1. /\ last[c] # "answer" /\ pc'[c] = "raised"
          /\ error'[c] = IF toolInput \in LookupErrors THEN toolInput ELSE "StructuredCallError"
      BY <1>1, <1>2, <1>7, <2>1, <2>4 DEF TypeOK, Parse, Raise
    <3>2. /\ error'[c] \in LookupErrors <=> last[c] \in {"no_choice", "null_choices"}
          /\ error'[c] \notin {"none", "provider error"}
      BY <1>2, <2>1, <3>1 DEF LookupErrors
    <3> QED
      BY <1>1, <1>2, <2>1, <2>2, <3>1, <3>2 DEF Outcome
  <2> QED
    BY <2>3, <2>4
<1> QED
  BY <1>3, <1>4, <1>5, <1>6, <1>7 DEF CallStep

\* The invariant is inductive.
LEMMA Invariance == Spec => []IInv
<1>1. IInv /\ [Next]_vars => IInv'
  <2> SUFFICES ASSUME IInv, [Next]_vars PROVE IInv'
    OBVIOUS
  <2>1. TypeOK'
    BY TypeStep
  <2>2. ASSUME NEW c \in Callers, CallStep(c), NEW d \in Callers
        PROVE  Budget(d)' /\ Outcome(d)'
    <3>1. CASE d = c
      BY <2>2, <3>1, BudgetStep, OutcomeStep
    <3>2. CASE d # c
      BY <2>2, <3>2, OthersUntouched DEF IInv
    <3> QED
      BY <3>1, <3>2
  <2>3. ASSUME UNCHANGED vars, NEW d \in Callers
        PROVE  Budget(d)' /\ Outcome(d)'
    BY <2>3 DEF IInv, Budget, Outcome, PerAttempt, Attempts, vars
  <2> QED
    BY <2>1, <2>2, <2>3 DEF IInv, Next, Ended
<1> QED
  BY InitIInv, <1>1, PTL DEF Spec

-----------------------------------------------------------------------------
\* Every variable of structured_call keeps its type: the attempts stay within
\* LLM_MAX_RETRIES, the SDK's retries within max_retries.
THEOREM Typing == Spec => []TypeOK
<1>1. IInv => TypeOK
  BY DEF IInv
<1> QED
  BY <1>1, Invariance, PTL

\* The requests of a call are at most the product of the two retry loops, and
\* for Bedrock, whose client retries nothing, the number of attempts.
THEOREM LoadBounded == Spec => []RequestsBounded
<1>1. IInv => RequestsBounded
  <2> SUFFICES ASSUME IInv, NEW c \in Callers
               PROVE  /\ attempt[c] <= Attempts
                      /\ provider[c] = "bedrock" => sent[c] <= attempt[c]
                      /\ sent[c] <= attempt[c] * (1 + SdkRetries)
    BY DEF RequestsBounded
  <2>1. /\ Budget(c) /\ Attempts \in Nat /\ attempt[c] <= Attempts
        /\ attempt[c] \in Nat /\ inner[c] \in Nat /\ sent[c] \in Nat
        /\ InnerRetries(provider[c]) \in Nat
    BY CallerValues, CallAssumption DEF IInv
  <2>2. sent[c] <= attempt[c] * PerAttempt(c)
    <3> DEFINE K == PerAttempt(c)
    <3>1. K \in Nat /\ (pc[c] = "execute" => inner[c] <= K)
      BY <2>1 DEF Budget, PerAttempt
    <3>2. (attempt[c] - 1) * K = attempt[c] * K - K /\ attempt[c] * K \in Nat
      <4> HIDE DEF K
      <4> QED
        BY <2>1, <3>1
    <3>3. pc[c] = "execute" => sent[c] <= attempt[c] * K - K + inner[c]
      BY <2>1, <3>2 DEF Budget
    <3>4. pc[c] # "execute" => sent[c] <= attempt[c] * K
      BY <2>1 DEF Budget
    <3> HIDE DEF K
    <3>5. sent[c] <= attempt[c] * K
      BY <2>1, <3>1, <3>2, <3>3, <3>4
    <3> QED
      BY <3>5 DEF K
  <2>3. provider[c] = "bedrock" => PerAttempt(c) = 1
    BY DEF PerAttempt, InnerRetries
  <2>4. PerAttempt(c) \in {1, 1 + SdkRetries}
    BY DEF PerAttempt, InnerRetries
  <2>5. attempt[c] * 1 <= attempt[c] * (1 + SdkRetries)
    BY <2>1, CallAssumption
  <2> QED
    BY <2>1, <2>2, <2>3, <2>4, <2>5, CallAssumption
<1> QED
  BY <1>1, Invariance, PTL

\* A call gives up only when it may, says why, and returns only usable answers.
THEOREM TruthfulEnd == Spec => []EndsTruthfully
<1>1. IInv => EndsTruthfully
  <2> SUFFICES ASSUME IInv, NEW c \in Callers
               PROVE  /\ pc[c] = "raised" =>
                            /\ last[c] \in Retryable(provider[c]) =>
                                  attempt[c] = Attempts /\ error[c] = "StructuredCallError"
                            /\ error[c] = "provider error" <=>
                                  last[c] \in Failures \ Retryable(provider[c])
                            /\ error[c] \in LookupErrors <=> last[c] \in {"no_choice", "null_choices"}
                      /\ pc[c] = "returned" => last[c] = "answer" /\ error[c] = "none"
                      /\ last[c] = "answer" => pc[c] \in {"parse", "returned"}
    BY DEF EndsTruthfully
  <2>1. Outcome(c) /\ pc[c] \in {"start", "execute", "backoff", "parse", "returned", "raised"}
    BY DEF IInv, TypeOK
  <2> QED
    BY <2>1 DEF Outcome, Failures
<1> QED
  BY <1>1, Invariance, PTL
=============================================================================
