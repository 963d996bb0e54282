---------------------------- MODULE BatchBackend ----------------------------
(***************************************************************************)
(* One call of run_batch_sync of a batch backend (llm/batch): submit_batch,*)
(* wait_for_batch and fetch_batch_results.  The Anthropic backend sends    *)
(* all items as one batch; the Bedrock backend sends one job per model,    *)
(* then waits for the jobs one after the other, each with a time limit of  *)
(* its own, then reads their outputs one after the other.                  *)
(*                                                                         *)
(* The services (external) work on the jobs at their own pace and end them *)
(* with one of their final statuses; any request to them may fail, and a   *)
(* failed request, which the SDK has already retried, is not tried again.  *)
(* Time is counted in poll intervals.                                      *)
(***************************************************************************)
EXTENDS Naturals, Sequences

CONSTANTS Items,       \* the items of the batch, which have distinct custom_ids
          Models,      \* their models, a sequence in order of first use
          ModelOf,     \* ModelOf[x]: the model of item x
          MaxWait      \* max_wait in poll intervals

ASSUME BackendAssumption ==
    /\ Items # {} /\ MaxWait \in Nat
    /\ ModelOf \in [Items -> {Models[i] : i \in 1..Len(Models)}]
    /\ Models \in Seq({ModelOf[x] : x \in Items})
    /\ \A i, j \in 1..Len(Models) : Models[i] = Models[j] => i = j

VARIABLES backend,   \* the batch_provider of the pipeline: "anthropic" or "bedrock"
          configured, \* bucket and role of the Bedrock batches are set
          pc,        \* "submit", "wait", "fetch", "returned" or "raised"
          current,   \* the job pc is about
          waited,    \* elapsed since the wait for the current job began
          polls,     \* intervals slept in all
          job,       \* job[i]: status of job i; "none", then perhaps "uploaded", before
                     \* it is created
          output,    \* output[x]: what the service wrote for x
          results,   \* results[x]: the BatchItemResult of x, when fetched
          error      \* why run_batch_sync raised

vars == <<backend, configured, pc, current, waited, polls, job, output, results, error>>

\* by_model, in the order of its keys; Anthropic sends everything at once.
Jobs == IF backend = "anthropic" THEN <<Items>>
        ELSE [i \in 1..Len(Models) |-> {x \in Items : ModelOf[x] = Models[i]}]

\* Final statuses.  A batch of Anthropic's always ends in the same one.
FinalStatuses == IF backend = "anthropic" THEN {"ended"}
                 ELSE {"Completed", "PartiallyCompleted", "Expired", "Failed", "Stopped"}

Succeeded == {"ended", "Completed"}

\* What the service may write for an item: nothing, that the request failed, an
\* answer without the tool call, one that does not validate, or a valid one.
Outputs == {"missing", "error", "no_tool_call", "bad_schema", "value"}

TypeOK ==
    /\ backend \in {"anthropic", "bedrock"}
    /\ pc \in {"submit", "wait", "fetch", "returned", "raised"}
    /\ current \in 1..Len(Jobs)
    /\ waited \in 0..(MaxWait + 1)
    /\ polls \in Nat
    /\ configured \in BOOLEAN
    /\ job \in [1..Len(Jobs) -> {"none", "uploaded", "running"} \cup FinalStatuses]
    /\ output \in [Items -> Outputs]
    /\ results \in [Items -> {"nothing", "failure", "value"}]
    /\ error \in {"none", "not configured", "request failed", "job failed", "timeout"}

Init ==
    /\ backend \in {"anthropic", "bedrock"}
    /\ configured \in BOOLEAN
    /\ pc = "submit" /\ current = 1 /\ waited = 0 /\ polls = 0
    /\ job = [i \in 1..Len(Jobs) |-> "none"]
    /\ output = [x \in Items |-> "missing"]
    /\ results = [x \in Items |-> "nothing"]
    /\ error = "none"

-----------------------------------------------------------------------------
\* The service ends a job, having written an output for some of its items.
EndJob(i) ==
    /\ job[i] = "running"
    /\ \E s \in FinalStatuses : job' = [job EXCEPT ![i] = s]
    /\ \E o \in [Jobs[i] -> Outputs] :
          output' = [x \in Items |-> IF x \in Jobs[i] THEN o[x] ELSE output[x]]
    /\ UNCHANGED <<backend, configured, pc, current, waited, polls, results, error>>

Raise(why) == pc' = "raised" /\ error' = why

\* Move on to the next job, or to the first one of the next stage.
Advance(next) ==
    /\ pc' = IF current < Len(Jobs) THEN pc ELSE next
    /\ current' = IF current < Len(Jobs) THEN current + 1
                  ELSE IF next = "returned" THEN current ELSE 1
    /\ UNCHANGED error

SubmitAnthropic ==
    /\ pc = "submit" /\ backend = "anthropic"
    /\ job' = [job EXCEPT ![current] = "running"]
    /\ Advance("wait")
    /\ UNCHANGED <<backend, configured, waited, polls, output, results>>

\* _require_config comes before anything is sent, for every job.
RequireConfig ==
    /\ pc = "submit" /\ backend = "bedrock" /\ ~configured
    /\ Raise("not configured")
    /\ UNCHANGED <<backend, configured, current, waited, polls, job, output, results>>

\* The input file of a Bedrock job is stored, then the job is created.
Upload ==
    /\ pc = "submit" /\ backend = "bedrock" /\ configured
    /\ job[current] = "none"
    /\ job' = [job EXCEPT ![current] = "uploaded"]
    /\ UNCHANGED <<backend, configured, pc, current, waited, polls, output, results, error>>

CreateJob ==
    /\ pc = "submit" /\ job[current] = "uploaded"
    /\ job' = [job EXCEPT ![current] = "running"]
    /\ Advance("wait")
    /\ UNCHANGED <<backend, configured, waited, polls, output, results>>

\* A request to the service fails for good; so may reading a file in which a
\* line is no JSON.
RequestFails ==
    /\ \/ pc = "submit" /\ (backend = "bedrock" => configured)
       \/ pc \in {"wait", "fetch"}
    /\ Raise("request failed")
    /\ UNCHANGED <<backend, configured, current, waited, polls, job, output, results>>

\* Faulty variant of Done: any final status will do.
DoneAnyhow == job[current] \in FinalStatuses

Done == job[current] \in Succeeded

\* Faulty variants of TimeUp: one interval early; never.
TimeUpEarly == waited >= MaxWait

TimeUpNever == FALSE

TimeUp == waited > MaxWait

\* Faulty variant of Elapsed: the start is taken anew after every sleep.
ElapsedRestarted == 0

\* elapsed after one more sleep.
Elapsed == waited + 1

\* One turn of the loop of wait_for_batch (_wait_for_single_job for Bedrock):
\* the status is looked at before the time.
Poll ==
    /\ pc = "wait"
    /\ \/ /\ Done
          /\ Advance("fetch")
          /\ waited' = 0
          /\ UNCHANGED polls
       \/ /\ ~Done
          /\ job[current] \in {"Failed", "Stopped"}
          /\ Raise("job failed")
          /\ UNCHANGED <<current, waited, polls>>
       \/ /\ ~Done /\ job[current] \notin {"Failed", "Stopped"}
          /\ TimeUp
          /\ Raise("timeout")
          /\ UNCHANGED <<current, waited, polls>>
       \/ /\ ~Done /\ job[current] \notin {"Failed", "Stopped"}
          /\ ~TimeUp
          /\ waited' = Elapsed
          /\ polls' = polls + 1
          /\ UNCHANGED <<pc, current, error>>
    /\ UNCHANGED <<backend, configured, job, output, results>>

\* One entry of the results of an Anthropic batch.
AnthropicEntry(written) == IF written = "value" THEN "value" ELSE "failure"

\* _parse_record: one line of an output file of a Bedrock job.
BedrockRecord(written) == IF written = "value" THEN "value" ELSE "failure"

\* Faulty variant of WithoutOutput: the item is left out.
WithoutOutputSkipped == "nothing"

\* The loop at the end of either fetch, for items nothing was written for.
WithoutOutput == "failure"

\* fetch_batch_results, one job.
Fetch ==
    /\ pc = "fetch"
    /\ results' = [x \in Items |->
          CASE x \notin Jobs[current]  -> results[x]
            [] x \in Jobs[current] /\ output[x] = "missing" -> WithoutOutput
            [] OTHER -> IF backend = "anthropic" THEN AnthropicEntry(output[x])
                        ELSE BedrockRecord(output[x])]
    /\ Advance("returned")
    /\ UNCHANGED <<backend, configured, waited, polls, job, output>>

CallStep ==
    SubmitAnthropic \/ RequireConfig \/ Upload \/ CreateJob \/ Poll \/ Fetch \/ RequestFails

Ended == pc \in {"returned", "raised"} /\ UNCHANGED vars

Next == CallStep \/ (\E i \in 1..Len(Jobs) : EndJob(i)) \/ Ended

Spec == Init /\ [][Next]_vars

\* The caller's thread runs on; the services owe nothing.
FairSpec == Spec /\ WF_vars(CallStep)

-----------------------------------------------------------------------------
(* Properties *)

\* Outputs are read only after the job that writes them has ended well, and
\* all of the jobs have: a batch is never returned half done.
OnlyEndedJobsAreRead ==
    pc \in {"fetch", "returned"} => \A i \in 1..Len(Jobs) : job[i] \in Succeeded

\* However slow the services are, a call sleeps at most one time limit (and one
\* interval) per job.
WaitBounded == polls <= Len(Jobs) * (MaxWait + 1)

\* The exception tells the truth: "ended with status" means a job that has
\* failed, "did not finish" a job that had all its time; a missing setting is
\* noticed before any job is paid for.
RaisesTruthfully ==
    /\ error = "not configured" => \A i \in 1..Len(Jobs) : job[i] = "none"
    /\ error = "job failed" => job[current] \in {"Failed", "Stopped"}
    /\ error = "timeout" => waited > MaxWait
    /\ pc = "raised" <=> error # "none"

-----------------------------------------------------------------------------
(* What BatchPipeline relies on. *)
Promise == INSTANCE BatchPromise WITH
    outcome <- IF pc \in {"returned", "raised"} THEN pc ELSE "pending",
    answers <- IF pc = "returned" THEN results ELSE [x \in Items |-> "nothing"],
    produced <- {x \in Items : output[x] = "value"}

\* A batch comes back whole and truthful or not at all, and it comes back even
\* if the services never finish a job.
KeepsPromise == Promise!FairSpec
=============================================================================
