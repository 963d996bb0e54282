------------------------- MODULE BatchBackendProofs -------------------------
(***************************************************************************)
(* Theorems about BatchBackend for any items, any distribution of them     *)
(* over models and any time limit, and for both backends.                  *)
(*                                                                         *)
(* What run_batch_sync raises or returns depends on what happened to the   *)
(* jobs before the current one.  The inductive invariant says it stage by  *)
(* stage: Submitting, Waiting and Fetching describe the jobs that a stage  *)
(* has dealt with, and Unfinished that a job which has not ended has       *)
(* written nothing.                                                        *)
(***************************************************************************)
EXTENDS BatchBackend, TLAPS

\* Before RequireConfig nothing is sent.
Unconfigured ==
    backend = "bedrock" /\ ~configured => \A i \in 1..Len(Jobs) : job[i] = "none"

\* The jobs are sent one after the other, then waited for one after the other;
\* each wait before the current one has slept at most a limit and an interval.
Waiting ==
    /\ pc = "submit" => /\ waited = 0 /\ polls = 0
                        /\ \A i \in 1..Len(Jobs) : i >= current => job[i] \in {"none", "uploaded"}
    /\ pc = "wait" => /\ \A i \in 1..Len(Jobs) : i < current => job[i] \in Succeeded
                      /\ polls <= (current - 1) * (MaxWait + 1) + waited

\* What has been fetched is what the service wrote.
Fetched(x) == results[x] = IF output[x] = "value" THEN "value" ELSE "failure"

Fetching ==
    /\ pc = "fetch" =>
          \A i \in 1..Len(Jobs) : i < current => \A x \in Jobs[i] : Fetched(x)
    /\ pc = "returned" => \A x \in Items : Fetched(x)

\* A job that has not ended has written nothing.
Unfinished ==
    \A i \in 1..Len(Jobs) : job[i] \in {"none", "uploaded", "running"} =>
        \A x \in Jobs[i] : output[x] = "missing"

IInv ==
    /\ TypeOK /\ OnlyEndedJobsAreRead /\ WaitBounded /\ RaisesTruthfully
    /\ Unconfigured /\ Waiting /\ Fetching /\ Unfinished

-----------------------------------------------------------------------------
\* The jobs partition the items, and there is at least one.
LEMMA JobsPartition ==
  ASSUME backend \in {"anthropic", "bedrock"}
  PROVE  /\ Len(Jobs) \in Nat /\ Len(Jobs) >= 1
         /\ \A i \in 1..Len(Jobs) : Jobs[i] \subseteq Items
         /\ \A x \in Items : \E i \in 1..Len(Jobs) : x \in Jobs[i]
         /\ \A i, j \in 1..Len(Jobs) : \A x \in Jobs[i] : x \in Jobs[j] => i = j
<1>1. CASE backend = "anthropic"
  <2>1. Jobs = <<Items>>
    BY <1>1 DEF Jobs
  <2>2. Len(Jobs) = 1 /\ Jobs[1] = Items
    BY <2>1
  <2> QED
    BY <2>2
<1>2. CASE backend = "bedrock"
  <2>1. Jobs = [i \in 1..Len(Models) |-> {x \in Items : ModelOf[x] = Models[i]}]
    BY <1>2 DEF Jobs
  <2>2. Len(Models) \in Nat
    BY BackendAssumption
  <2>3. Len(Jobs) = Len(Models)
    BY <2>1, <2>2
  <2>4. \A x \in Items : \E i \in 1..Len(Models) : ModelOf[x] = Models[i]
    BY BackendAssumption
  <2>5. Len(Models) >= 1
    BY <2>2, <2>4, BackendAssumption
  <2>6. \A i \in 1..Len(Jobs) : Jobs[i] = {x \in Items : ModelOf[x] = Models[i]}
    BY <2>1, <2>3
  <2> QED
    BY <2>2, <2>3, <2>4, <2>5, <2>6, BackendAssumption
<1> QED
  BY <1>1, <1>2

\* No step changes the backend, the settings or the way the items are split.
LEMMA SplitFixed ==
  [Next]_vars => /\ backend' = backend /\ configured' = configured
                 /\ Jobs' = Jobs /\ FinalStatuses' = FinalStatuses
<1> SUFFICES ASSUME [Next]_vars PROVE backend' = backend /\ configured' = configured
  BY DEF Jobs, FinalStatuses
<1> QED
  BY DEF Next, CallStep, SubmitAnthropic, RequireConfig, Upload, CreateJob, Poll, Fetch,
     RequestFails, EndJob, Ended, vars

\* The invariant holds before the first request.
LEMMA InitIInv == Init => IInv
<1> SUFFICES ASSUME Init PROVE IInv
  OBVIOUS
<1>1. Len(Jobs) \in Nat /\ Len(Jobs) >= 1 /\ \A i \in 1..Len(Jobs) : Jobs[i] \subseteq Items
  BY JobsPartition DEF Init
<1>2. MaxWait \in Nat
  BY BackendAssumption
<1>3. TypeOK
  BY <1>1, <1>2 DEF Init, TypeOK, Outputs
<1>4. OnlyEndedJobsAreRead /\ Unconfigured /\ Fetching /\ RaisesTruthfully
  BY <1>1 DEF Init, OnlyEndedJobsAreRead, Unconfigured, Fetching, RaisesTruthfully
<1>5. WaitBounded
  <2>1. Len(Jobs) * (MaxWait + 1) \in Nat
    BY <1>1, <1>2
  <2> QED
    BY <2>1 DEF Init, WaitBounded
<1>6. Waiting
  BY DEF Init, Waiting
<1>7. Unfinished
  BY <1>1 DEF Init, Unfinished
<1> QED
  BY <1>3, <1>4, <1>5, <1>6, <1>7 DEF IInv

-----------------------------------------------------------------------------
(* The steps keep the invariant, one lemma per action.                     *)

\* The ranges of the variables, from the types and the split.
LEMMA Ranges ==
  ASSUME IInv
  PROVE  /\ Len(Jobs) \in Nat /\ Len(Jobs) >= 1 /\ current \in 1..Len(Jobs)
         /\ current \in Nat /\ MaxWait \in Nat
         /\ waited \in Nat /\ waited <= MaxWait + 1 /\ polls \in Nat
         /\ \A i \in 1..Len(Jobs) : Jobs[i] \subseteq Items
         /\ \A x \in Items : \E i \in 1..Len(Jobs) : x \in Jobs[i]
         /\ \A i, j \in 1..Len(Jobs) : \A x \in Jobs[i] : x \in Jobs[j] => i = j
         /\ FinalStatuses \cap {"none", "uploaded", "running"} = {}
<1>1. TypeOK
  BY DEF IInv
<1>2. /\ Len(Jobs) \in Nat /\ Len(Jobs) >= 1
      /\ \A i \in 1..Len(Jobs) : Jobs[i] \subseteq Items
      /\ \A x \in Items : \E i \in 1..Len(Jobs) : x \in Jobs[i]
      /\ \A i, j \in 1..Len(Jobs) : \A x \in Jobs[i] : x \in Jobs[j] => i = j
  BY <1>1, JobsPartition DEF TypeOK
<1>3. /\ current \in 1..Len(Jobs) /\ current \in Nat /\ MaxWait \in Nat
      /\ waited \in Nat /\ waited <= MaxWait + 1 /\ polls \in Nat
  <2>1. MaxWait \in Nat
    BY BackendAssumption
  <2>2. current \in 1..Len(Jobs) /\ waited \in 0..(MaxWait + 1) /\ polls \in Nat
    BY <1>1 DEF TypeOK
  <2> QED
    BY <1>2, <2>1, <2>2
<1>4. FinalStatuses \cap {"none", "uploaded", "running"} = {}
  BY DEF FinalStatuses
<1> QED
  BY <1>2, <1>3, <1>4

\* The service ends a job: nobody has read it, and its items had no output.
LEMMA EndJobStep ==
  ASSUME IInv, NEW k \in 1..Len(Jobs), EndJob(k)
  PROVE  IInv'
<1>1. /\ Jobs' = Jobs /\ FinalStatuses' = FinalStatuses
      /\ backend' = backend /\ configured' = configured /\ pc' = pc /\ current' = current
      /\ waited' = waited /\ polls' = polls /\ results' = results /\ error' = error
  BY DEF EndJob, Jobs, FinalStatuses
<1>2. PICK s \in FinalStatuses, o \in [Jobs[k] -> Outputs] :
        /\ job' = [job EXCEPT ![k] = s]
        /\ output' = [x \in Items |-> IF x \in Jobs[k] THEN o[x] ELSE output[x]]
  BY DEF EndJob
<1>3. TypeOK /\ job[k] = "running"
  BY DEF IInv, EndJob
<1>4. job'[k] = s /\ \A i \in 1..Len(Jobs) : i # k => job'[i] = job[i]
  BY <1>2, <1>3 DEF TypeOK
<1>5. pc \notin {"fetch", "returned"}
  BY <1>3 DEF IInv, OnlyEndedJobsAreRead, Succeeded
<1>6. TypeOK'
  BY <1>1, <1>2, <1>3 DEF TypeOK
<1>7. OnlyEndedJobsAreRead' /\ Fetching'
  BY <1>1, <1>5 DEF OnlyEndedJobsAreRead, Fetching
<1>8. WaitBounded'
  BY <1>1 DEF IInv, WaitBounded
<1>9. RaisesTruthfully'
  BY <1>1, <1>3, <1>4, Ranges DEF IInv, RaisesTruthfully
<1>10. Unconfigured'
  BY <1>1, <1>3 DEF IInv, Unconfigured
<1>11. Waiting'
  BY <1>1, <1>3, <1>4 DEF IInv, Waiting, Succeeded
<1>12. Unfinished'
  <2> SUFFICES ASSUME NEW i \in 1..Len(Jobs), job'[i] \in {"none", "uploaded", "running"},
                      NEW x \in Jobs[i]
               PROVE  output'[x] = "missing"
    BY <1>1 DEF Unfinished
  <2>1. i # k
    BY <1>4, Ranges
  <2>2. x \in Items /\ x \notin Jobs[k]
    BY <2>1, Ranges
  <2> QED
    BY <1>2, <1>4, <2>1, <2>2 DEF IInv, Unfinished
<1> QED
  BY <1>6, <1>7, <1>8, <1>9, <1>10, <1>11, <1>12 DEF IInv

\* A call gives up, or goes on without the jobs, results or times changing: what
\* is left to show is that the reason is true.
LEMMA RaiseStep ==
  ASSUME IInv, NEW why \in {"not configured", "request failed", "job failed", "timeout"},
         pc \notin {"returned", "raised"}, Raise(why),
         UNCHANGED <<backend, configured, current, waited, polls, job, output, results>>,
         why = "not configured" => \A i \in 1..Len(Jobs) : job[i] = "none",
         why = "job failed" => job[current] \in {"Failed", "Stopped"},
         why = "timeout" => waited > MaxWait
  PROVE  IInv'
<1>1. /\ Jobs' = Jobs /\ FinalStatuses' = FinalStatuses
      /\ pc' = "raised" /\ error' = why
  BY DEF Raise, Jobs, FinalStatuses
<1>2. TypeOK'
  BY <1>1 DEF IInv, TypeOK
<1>3. OnlyEndedJobsAreRead' /\ WaitBounded' /\ RaisesTruthfully'
  BY <1>1 DEF IInv, OnlyEndedJobsAreRead, WaitBounded, RaisesTruthfully
<1>4. Unconfigured' /\ Waiting' /\ Fetching'
  BY <1>1 DEF IInv, Unconfigured, Waiting, Fetching
<1>5. Unfinished'
  BY <1>1 DEF IInv, Unfinished
<1> QED
  BY <1>2, <1>3, <1>4, <1>5 DEF IInv

\* A job is sent: it was not before, so that nothing has been written for it.
LEMMA SendStep ==
  ASSUME IInv, SubmitAnthropic \/ Upload \/ CreateJob
  PROVE  IInv'
<1>1. /\ Jobs' = Jobs /\ FinalStatuses' = FinalStatuses
      /\ backend' = backend /\ configured' = configured
      /\ waited' = waited /\ polls' = polls /\ output' = output /\ results' = results
      /\ error' = error /\ pc = "submit"
  BY DEF SubmitAnthropic, Upload, CreateJob, Advance, Jobs, FinalStatuses
<1>2. PICK s \in {"uploaded", "running"} : job' = [job EXCEPT ![current] = s]
  BY DEF SubmitAnthropic, Upload, CreateJob
<1>3. TypeOK
  BY DEF IInv
<1>4. /\ current' \in 1..Len(Jobs) /\ pc' \in {"submit", "wait"}
      /\ pc' = "wait" => current' = 1
  BY <1>1, Ranges DEF SubmitAnthropic, Upload, CreateJob, Advance
<1>5. waited = 0 /\ polls = 0 /\ error = "none"
  BY <1>1 DEF IInv, Waiting, RaisesTruthfully
<1>6. TypeOK'
  <2>1. job' \in [1..Len(Jobs) -> {"none", "uploaded", "running"} \cup FinalStatuses]
    BY <1>2, <1>3 DEF TypeOK
  <2> QED
    BY <1>1, <1>3, <1>4, <2>1 DEF TypeOK
<1>7. OnlyEndedJobsAreRead' /\ Fetching'
  BY <1>4 DEF OnlyEndedJobsAreRead, Fetching
<1>8. WaitBounded'
  BY <1>1 DEF IInv, WaitBounded
<1>9. RaisesTruthfully'
  BY <1>1, <1>4, <1>5 DEF RaisesTruthfully
<1>10. Unconfigured'
  <2>1. SubmitAnthropic => backend = "anthropic"
    BY DEF SubmitAnthropic
  <2>2. Upload => configured
    BY DEF Upload
  <2>3. CreateJob /\ backend = "bedrock" => configured
    BY Ranges DEF CreateJob, IInv, Unconfigured, TypeOK
  <2> QED
    BY <1>1, <1>3, <2>1, <2>2, <2>3 DEF Unconfigured, TypeOK
<1>11. Waiting'
  <2>1. pc' = "wait" => (current' - 1) * (MaxWait + 1) = 0
    BY <1>4, Ranges
  <2>2. pc' = "wait" => \A i \in 1..Len(Jobs) : ~(i < current')
    BY <1>4
  <2>3. ASSUME pc' = "submit", NEW i \in 1..Len(Jobs), i >= current'
        PROVE  job'[i] \in {"none", "uploaded"}
    <3>1. \A j \in 1..Len(Jobs) : j >= current => job[j] \in {"none", "uploaded"}
      BY <1>1 DEF IInv, Waiting
    <3>2. CASE Upload
      <4>1. current' = current /\ job' = [job EXCEPT ![current] = "uploaded"]
        BY <3>2 DEF Upload
      <4> QED
        BY <1>3, <2>3, <3>1, <4>1 DEF TypeOK
    <3>3. CASE SubmitAnthropic \/ CreateJob
      <4>1. current' = current + 1
        BY <1>1, <2>3, <3>3 DEF SubmitAnthropic, CreateJob, Advance
      <4>2. i # current /\ i >= current
        BY <2>3, <4>1, Ranges
      <4> QED
        BY <1>2, <1>3, <3>1, <4>2 DEF TypeOK
    <3> QED
      BY <3>2, <3>3
  <2> QED
    BY <1>1, <1>4, <1>5, <2>1, <2>2, <2>3 DEF Waiting
<1>12. Unfinished'
  <2>1. job[current] \in {"none", "uploaded"}
    BY <1>1, Ranges DEF IInv, Waiting
  <2>2. \A x \in Jobs[current] : output[x] = "missing"
    BY <2>1, Ranges DEF IInv, Unfinished
  <2>3. \A i \in 1..Len(Jobs) : i # current => job'[i] = job[i]
    BY <1>2, <1>3 DEF TypeOK
  <2> QED
    BY <1>1, <2>2, <2>3 DEF IInv, Unfinished
<1> QED
  BY <1>6, <1>7, <1>8, <1>9, <1>10, <1>11, <1>12 DEF IInv

\* Multiplication is monotone, which the provers do not see by themselves.
LEMMA TimesMonotone ==
  ASSUME NEW a \in Nat, NEW b \in Nat, NEW p \in Nat, a <= b
  PROVE  a * p <= b * p
<1>1. (b - a) * p = b * p - a * p
  OBVIOUS
<1>2. b - a \in Nat
  OBVIOUS
<1>3. (b - a) * p \in Nat
  BY <1>2
<1>4. a * p \in Nat /\ b * p \in Nat
  OBVIOUS
<1> QED
  BY <1>1, <1>3, <1>4

\* The wait for one job ends well: on to the next job, or to the outputs.
LEMMA PollDone ==
  ASSUME IInv, pc = "wait", Done, Advance("fetch"), waited' = 0,
         UNCHANGED <<backend, configured, polls, job, output, results>>
  PROVE  IInv'
<1> DEFINE P == MaxWait + 1
<1>1. /\ Jobs' = Jobs /\ FinalStatuses' = FinalStatuses /\ error' = error
      /\ current < Len(Jobs) => pc' = "wait" /\ current' = current + 1
      /\ current >= Len(Jobs) => pc' = "fetch" /\ current' = 1
  BY Ranges DEF Advance, Jobs, FinalStatuses
<1>2. \A i \in 1..Len(Jobs) : i <= current => job[i] \in Succeeded
  BY Ranges DEF IInv, Waiting, Done
<1>3. pc' \in {"wait", "fetch"} /\ current' \in 1..Len(Jobs)
  BY <1>1, Ranges
<1>4. TypeOK'
  <2>1. waited' \in 0..(MaxWait + 1)
    BY Ranges
  <2> QED
    BY <1>1, <1>3, <2>1 DEF IInv, TypeOK
<1>5. OnlyEndedJobsAreRead'
  <2>1. pc' = "fetch" => \A i \in 1..Len(Jobs) : i <= current
    BY <1>1, <1>3, Ranges
  <2> QED
    BY <1>1, <1>2, <1>3, <2>1 DEF OnlyEndedJobsAreRead
<1>6. WaitBounded' /\ RaisesTruthfully'
  BY <1>1, <1>3 DEF IInv, WaitBounded, RaisesTruthfully
<1>7. Unconfigured' /\ Unfinished'
  BY <1>1 DEF IInv, Unconfigured, Unfinished
<1>8. Waiting'
  <2>1. pc' = "wait" => polls <= (current' - 1) * (MaxWait + 1) + waited'
    <3> SUFFICES ASSUME pc' = "wait" PROVE polls <= (current' - 1) * P + 0
      OBVIOUS
    <3>1. /\ current' - 1 = current /\ current \in Nat /\ P \in Nat
          /\ waited \in Nat /\ waited <= P /\ polls \in Nat
      BY <1>1, Ranges
    <3>2. polls <= (current - 1) * P + waited
      BY DEF IInv, Waiting
    <3> HIDE DEF P
    <3>3. (current - 1) * P = current * P - P /\ current * P \in Nat
      BY <3>1
    <3> QED
      BY <3>1, <3>2, <3>3
  <2>2. pc' = "wait" => \A i \in 1..Len(Jobs) : i < current' => job[i] \in Succeeded
    BY <1>1, <1>2, Ranges
  <2> QED
    BY <1>1, <1>3, <2>1, <2>2 DEF Waiting
<1>9. Fetching'
  <2>1. pc' = "fetch" => \A i \in 1..Len(Jobs) : ~(i < current')
    BY <1>1, <1>3, Ranges
  <2> QED
    BY <1>1, <1>3, <2>1 DEF Fetching
<1> QED
  BY <1>4, <1>5, <1>6, <1>7, <1>8, <1>9 DEF IInv

\* One more sleep: the time limit of this job has not been reached.
LEMMA PollSleep ==
  ASSUME IInv, pc = "wait", ~TimeUp, waited' = Elapsed, polls' = polls + 1,
         UNCHANGED <<backend, configured, pc, current, job, output, results, error>>
  PROVE  IInv'
<1> DEFINE P == MaxWait + 1
<1>1. Jobs' = Jobs /\ FinalStatuses' = FinalStatuses
  BY DEF Jobs, FinalStatuses
<1>2. waited' = waited + 1 /\ waited + 1 <= P
  BY Ranges DEF TimeUp, Elapsed
<1>3. TypeOK'
  <2>1. waited' \in 0..(MaxWait + 1) /\ polls' \in Nat
    BY <1>2, Ranges
  <2> QED
    BY <1>1, <2>1 DEF IInv, TypeOK
<1>4. OnlyEndedJobsAreRead' /\ RaisesTruthfully'
  BY <1>1 DEF IInv, OnlyEndedJobsAreRead, RaisesTruthfully
<1>5. Unconfigured' /\ Unfinished' /\ Fetching'
  BY <1>1 DEF IInv, Unconfigured, Unfinished, Fetching
<1>6. polls <= (current - 1) * P + waited
  BY DEF IInv, Waiting
<1>7. (current - 1) * P \in Nat
  <2>1. current - 1 \in Nat /\ P \in Nat
    BY Ranges
  <2> QED
    BY <2>1
<1>8. polls' <= (current - 1) * P + waited'
  <2>1. polls \in Nat /\ waited \in Nat
    BY Ranges
  <2> QED
    BY <1>2, <1>6, <1>7, <2>1
<1>9. Waiting'
  BY <1>1, <1>8 DEF IInv, Waiting
<1>10. WaitBounded'
  <2>1. /\ current \in Nat /\ Len(Jobs) \in Nat /\ current <= Len(Jobs)
        /\ P \in Nat /\ polls' \in Nat /\ waited' \in Nat /\ waited' <= P
    BY <1>2, Ranges
  <2>2. current * P <= Len(Jobs) * P
    BY <2>1, TimesMonotone
  <2> HIDE DEF P
  <2>3. (current - 1) * P = current * P - P /\ current * P \in Nat /\ Len(Jobs) * P \in Nat
    BY <2>1
  <2>4. polls' <= Len(Jobs) * P
    BY <1>8, <2>1, <2>2, <2>3
  <2> QED
    BY <1>1, <2>4 DEF WaitBounded, P
<1> QED
  BY <1>3, <1>4, <1>5, <1>9, <1>10 DEF IInv

\* The outputs of one job are read: what is returned is what was written.
LEMMA FetchStep ==
  ASSUME IInv, Fetch
  PROVE  IInv'
<1>1. /\ Jobs' = Jobs /\ FinalStatuses' = FinalStatuses /\ error' = error /\ pc = "fetch"
      /\ current < Len(Jobs) => pc' = "fetch" /\ current' = current + 1
      /\ current >= Len(Jobs) => pc' = "returned" /\ current' = current
      /\ UNCHANGED <<backend, configured, waited, polls, job, output>>
  BY Ranges DEF Fetch, Advance, Jobs, FinalStatuses
<1>2. /\ \A x \in Items \ Jobs[current] : results'[x] = results[x]
      /\ \A x \in Jobs[current] :
            results'[x] = IF output[x] = "value" THEN "value" ELSE "failure"
      /\ results' \in [Items -> {"nothing", "failure", "value"}]
  <2>1. Jobs[current] \subseteq Items
    BY Ranges
  <2>2. results \in [Items -> {"nothing", "failure", "value"}]
    BY DEF IInv, TypeOK
  <2>3. results' = [x \in Items |->
          CASE x \notin Jobs[current]  -> results[x]
            [] x \in Jobs[current] /\ output[x] = "missing" -> "failure"
            [] OTHER -> IF output[x] = "value" THEN "value" ELSE "failure"]
    BY DEF Fetch, WithoutOutput, AnthropicEntry, BedrockRecord
  <2> QED
    BY <2>1, <2>2, <2>3
<1>3. TypeOK'
  <2>1. current' \in 1..Len(Jobs) /\ pc' \in {"fetch", "returned"}
    BY <1>1, Ranges
  <2> QED
    BY <1>1, <1>2, <2>1 DEF IInv, TypeOK
<1>4. OnlyEndedJobsAreRead'
  BY <1>1 DEF IInv, OnlyEndedJobsAreRead
<1>5. WaitBounded' /\ Unconfigured' /\ Unfinished'
  BY <1>1 DEF IInv, WaitBounded, Unconfigured, Unfinished
<1>6. RaisesTruthfully'
  <2>1. error = "none"
    BY <1>1 DEF IInv, RaisesTruthfully
  <2>2. pc' \in {"fetch", "returned"}
    BY <1>1, Ranges
  <2> QED
    BY <1>1, <2>1, <2>2 DEF RaisesTruthfully
<1>7. Waiting'
  BY <1>1, Ranges DEF Waiting
<1>8. Fetching'
  <2>1. ASSUME NEW i \in 1..Len(Jobs), i <= current, NEW x \in Jobs[i]
        PROVE  Fetched(x)'
    <3>1. CASE i = current
      BY <1>1, <1>2, <2>1, <3>1 DEF Fetched
    <3>2. CASE i # current
      <4>1. x \in Items \ Jobs[current] /\ i < current
        BY <2>1, <3>2, Ranges
      <4>2. Fetched(x)
        BY <1>1, <4>1 DEF IInv, Fetching
      <4> QED
        BY <1>1, <1>2, <4>1, <4>2 DEF Fetched
    <3> QED
      BY <3>1, <3>2
  <2>2. ASSUME pc' = "fetch", NEW i \in 1..Len(Jobs), i < current', NEW x \in Jobs[i]
        PROVE  Fetched(x)'
    BY <1>1, <2>1, <2>2, Ranges
  <2>3. ASSUME pc' = "returned", NEW x \in Items
        PROVE  Fetched(x)'
    <3>1. PICK i \in 1..Len(Jobs) : x \in Jobs[i]
      BY Ranges
    <3>2. i <= current
      BY <1>1, <2>3, Ranges
    <3> QED
      BY <2>1, <3>1, <3>2
  <2> QED
    BY <1>1, <2>2, <2>3 DEF Fetching
<1> QED
  BY <1>3, <1>4, <1>5, <1>6, <1>7, <1>8 DEF IInv

\* The invariant is inductive.
LEMMA Invariance == Spec => []IInv
<1>1. IInv /\ [Next]_vars => IInv'
  <2> SUFFICES ASSUME IInv, [Next]_vars PROVE IInv'
    OBVIOUS
  <2>1. CASE SubmitAnthropic \/ Upload \/ CreateJob
    BY <2>1, SendStep
  <2>2. CASE RequireConfig
    <3>1. \A i \in 1..Len(Jobs) : job[i] = "none"
      BY <2>2 DEF RequireConfig, IInv, Unconfigured
    <3> QED
      BY <2>2, <3>1, RaiseStep DEF RequireConfig
  <2>3. CASE RequestFails
    BY <2>3, RaiseStep DEF RequestFails
  <2>4. CASE Poll
    <3>1. CASE Done /\ Advance("fetch") /\ waited' = 0 /\ UNCHANGED polls
      BY <2>4, <3>1, PollDone DEF Poll
    <3>2. CASE /\ job[current] \in {"Failed", "Stopped"} /\ Raise("job failed")
               /\ UNCHANGED <<current, waited, polls>>
      BY <2>4, <3>2, RaiseStep DEF Poll
    <3>3. CASE TimeUp /\ Raise("timeout") /\ UNCHANGED <<current, waited, polls>>
      BY <2>4, <3>3, RaiseStep DEF Poll, TimeUp
    <3>4. CASE /\ ~TimeUp /\ waited' = Elapsed /\ polls' = polls + 1
               /\ UNCHANGED <<pc, current, error>>
      BY <2>4, <3>4, PollSleep DEF Poll
    <3> QED
      BY <2>4, <3>1, <3>2, <3>3, <3>4 DEF Poll
  <2>5. CASE Fetch
    BY <2>5, FetchStep
  <2>6. CASE \E i \in 1..Len(Jobs) : EndJob(i)
    BY <2>6, EndJobStep
  <2>7. CASE UNCHANGED vars
    <3>1. Jobs' = Jobs /\ FinalStatuses' = FinalStatuses
      BY <2>7 DEF Jobs, FinalStatuses, vars
    <3>2. TypeOK' /\ OnlyEndedJobsAreRead' /\ WaitBounded' /\ RaisesTruthfully'
      BY <2>7, <3>1
      DEF IInv, TypeOK, OnlyEndedJobsAreRead, WaitBounded, RaisesTruthfully, vars
    <3>3. Unconfigured' /\ Waiting' /\ Fetching' /\ Unfinished'
      BY <2>7, <3>1
      DEF IInv, Unconfigured, Waiting, Fetching, Fetched, Unfinished, vars
    <3> QED
      BY <3>2, <3>3 DEF IInv
  <2> QED
    BY <2>1, <2>2, <2>3, <2>4, <2>5, <2>6, <2>7 DEF Next, CallStep, Ended
<1> QED
  BY InitIInv, <1>1, PTL DEF Spec

-----------------------------------------------------------------------------
\* Every variable of run_batch_sync keeps its type; the wait for a job never
\* exceeds its limit by more than one interval.
THEOREM Typing == Spec => []TypeOK
<1>1. IInv => TypeOK
  BY DEF IInv
<1> QED
  BY <1>1, Invariance, PTL

\* Outputs are read only when all of the jobs have ended well.
THEOREM WholeBatches == Spec => []OnlyEndedJobsAreRead
<1>1. IInv => OnlyEndedJobsAreRead
  BY DEF IInv
<1> QED
  BY <1>1, Invariance, PTL

\* A call sleeps at most one time limit and one interval per job.
THEOREM WaitLimited == Spec => []WaitBounded
<1>1. IInv => WaitBounded
  BY DEF IInv
<1> QED
  BY <1>1, Invariance, PTL

\* The exception of run_batch_sync names what has happened.
THEOREM TruthfulRaise == Spec => []RaisesTruthfully
<1>1. IInv => RaisesTruthfully
  BY DEF IInv
<1> QED
  BY <1>1, Invariance, PTL

-----------------------------------------------------------------------------
(* The refinement.                                                         *)

\* Either backend keeps the safety part of what llm/batch/base.py asks for: a
\* batch comes back whole, with a value exactly for the items that have one,
\* or not at all.
THEOREM PromiseKept == Spec => Promise!Spec
<1> DEFINE answered == IF pc = "returned" THEN results ELSE [x \in Items |-> "nothing"]
           produced == {x \in Items : output[x] = "value"}
<1>1. Init => Promise!Init
  BY DEF Init, Promise!Init, Promise!Nothing
<1>2. IInv /\ IInv' /\ [Next]_vars => [Promise!Next]_(Promise!promiseVars)
  <2> SUFFICES ASSUME IInv, IInv', [Next]_vars
               PROVE  Promise!Next \/ UNCHANGED Promise!promiseVars
    OBVIOUS
  <2> USE DEF Promise!promiseVars
  <2>1. CASE SubmitAnthropic \/ Upload \/ CreateJob
    <3>1. pc = "submit" /\ pc' \in {"submit", "wait"} /\ output' = output
      BY <2>1 DEF SubmitAnthropic, Upload, CreateJob, Advance
    <3> QED
      BY <3>1
  <2>2. ASSUME pc \notin {"returned", "raised"}, pc' = "raised", output' = output
        PROVE  Promise!Next
    BY <2>2 DEF Promise!Next, Promise!Raise
  <2>3. CASE RequireConfig \/ RequestFails
    BY <2>2, <2>3 DEF RequireConfig, RequestFails, Raise
  <2>4. CASE Poll
    <3>1. pc = "wait" /\ pc' \in {"wait", "fetch", "raised"} /\ output' = output
      BY <2>4 DEF Poll, Raise, Advance
    <3> QED
      BY <2>2, <3>1
  <2>5. CASE Fetch
    <3>1. pc = "fetch" /\ pc' \in {"fetch", "returned"} /\ output' = output
      BY <2>5 DEF Fetch, Advance
    <3>2. CASE pc' = "fetch"
      BY <3>1, <3>2
    <3>3. CASE pc' = "returned"
      <4>1. \A x \in Items : results'[x] = IF output[x] = "value" THEN "value" ELSE "failure"
        BY <3>1, <3>3 DEF IInv, Fetching, Fetched
      <4>2. results' = [x \in Items |-> results'[x]]
        BY DEF IInv, TypeOK
      <4>3. results' = [x \in Items |-> IF x \in produced THEN "value" ELSE "failure"]
        BY <4>1, <4>2
      <4> QED
        BY <3>1, <3>3, <4>3 DEF Promise!Next, Promise!Return
    <3> QED
      BY <3>1, <3>2, <3>3
  <2>6. ASSUME NEW k \in 1..Len(Jobs), EndJob(k)
        PROVE  Promise!Next
    <3>1. pc' = pc /\ results' = results
      BY <2>6 DEF EndJob
    <3>2. produced' = produced \cup produced'
      <4> SUFFICES ASSUME NEW x \in produced PROVE x \in produced'
        OBVIOUS
      <4>1. x \in Items /\ output[x] = "value"
        OBVIOUS
      <4>2. x \notin Jobs[k]
        BY <2>6, <4>1 DEF EndJob, IInv, Unfinished
      <4> QED
        BY <2>6, <4>1, <4>2 DEF EndJob
    <3>3. produced' \in SUBSET Items
      OBVIOUS
    <3> QED
      BY <3>1, <3>2, <3>3 DEF Promise!Next, Promise!Produce
  <2>7. CASE UNCHANGED vars
    BY <2>7 DEF vars
  <2> QED
    BY <2>1, <2>3, <2>4, <2>5, <2>6, <2>7 DEF Next, CallStep, Ended
<1> QED
  BY <1>1, <1>2, Invariance, PTL DEF Spec, Promise!Spec
=============================================================================
