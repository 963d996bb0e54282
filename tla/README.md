# A formal model of refcheck

TLA+ modules, TLC configurations and TLAPS proofs about the reference-check
program in `src/`: a REST service that runs checks in the background, the
graphs that compute a check, the batch pipeline that computes many, and the
calls to model providers all of them rest on.

    tlc -config CheckService_safety.cfg MCCheckService      # one run
    tlapm CheckServiceProofs.tla                            # one proof module

`PROJECT.json` lists the components, the runs, the mutants that show each
property can fail, the source lines of every definition, the hazards and the
findings.

## The system

| component | state it keeps | operations | what makes it correct |
|---|---|---|---|
| Check store (`api/store.py`) | `_records`, one lock | create, get, mark_running, mark_completed, mark_failed | one life per check; status and payload agree for whoever respects the lock |
| REST endpoints (`api/main.py`) | none of their own | submit_check, get_check | an accepted check can be polled; answers are neither mixed nor stale |
| Background task (`api/runner.py`) | the compiled graph | run_check, _send_callback | every accepted check ends; a callback is final |
| Candidate graph (`graphs/candidate_graph.py`, `nodes/candidate_nodes.py`) | CandidateState | fan-out, run_reference, cross-check, overall score and summary | failures stay with their reference; the verdict waits for all references |
| Reference graphs (`graphs/reference_graph.py`, `nodes/reference_nodes.py`) | ReferenceCheckState per reference | REF1: extract and sentiment in parallel, diff, explain, score, summarize; REF2: evaluate, comments, score, summarize | results do not depend on the interleaving |
| Batch pipeline (`pipelines/batch_runner.py`) | the `*_by_ref` dictionaries | eight phases, five of them batches | same results as the graph; failures flagged |
| Batch backends (`llm/batch/`) | a batch or one job per model | submit, wait, fetch | all items answered, or an exception, in bounded time |
| Providers (`llm/base.py`, `llm/*_provider.py`) | none | structured_call | bounded retries, truthful exceptions, validated answers |
| Streamlit client (`streamlit_app.py`) | session state: references, candidate, check_id; the checkbox | save, add, remove, submit, refresh, start a new check | what the page shows belongs to its check; nothing is submitted twice; Remove takes what it stands beside; refreshes end |
| Schemas and validation (`schemas.py`, `validation.py`) | none | validate_shape, validate_raw_input | both pipelines refuse the same inputs |
| Configuration (`config.py`) | constants | get_model | weights and limits mean the same everywhere |
| Prompts, logging, demos, documents | none | none with control flow | |

How they interact.  `submit_check` creates a record and schedules `run_check`;
FastAPI runs endpoints and background tasks in one bounded thread pool, so a
check that computes takes a thread from the clients that poll.  `run_check`
invokes the candidate graph, whose nodes run in a thread pool of LangGraph's
own; every reference is a task of one superstep and invokes a subgraph, whose
first superstep has two tasks.  Each node that needs a model calls
`structured_call`.  The store is the only state shared between threads of the
service: the record returned by `store.get` is the live object.  The batch
pipeline is sequential; it reuses the pure nodes and hands its model calls to a
batch backend, one batch per phase.  The Streamlit page is a client of the
service like any other: its script is run from the top on every click and, while
auto-refresh is on, every three seconds, with one GET in every run.

What is hard here: the unlocked reads of `get_check` between the writes of
`_update`; a restart that loses all records; one pool for everything; barriers
and failures in the graphs; items of a batch that fail one by one; retries
inside retries; jobs that end in a status nobody expects; a script that a click can
end at almost any line.  The hazards of
`PROJECT.json` name the line of each.

## The modules

**CheckLifecycle** is the promise of the REST API about one check, without
threads or half-written records: absent, queued, running, then completed with
its result or failed with its error; a restart loses it.

**CheckService** is store, endpoints and background task.  `records` is
`_records` (an identifier that is no key is "absent"), `lock` the store's lock,
`task[c]` the control point of submit_check and run_check for check c, `poll[p]`
the GET a client has in progress with the fields it has read so far, `answer`
and `posted` what clients and callback URLs have received.  One action is what
a thread does between two points where another thread can observe it: each
attribute write of `_update` (SetStatus, SetPayload), each attribute read of
`get_check` (PollRead), each acquisition and release of the lock.  Submit is
one action because the identifier is not known to anybody before it returns.
`lost`, `crashes`, `issued` and the `atStart` field of a poll are history.
A result is represented by the identifier of the check it belongs to, so that
a payload in the wrong place is visible.

**StreamlitClient** is one browser session against the service.  `session` is
st.session_state, `auto` the checkbox, `pc` where the script stands, `event` the
button that is True in this run and `index` which of the "Remove" buttons it is,
`reply` a check_id received and not yet stored, `data` the answer of the run's GET,
`listed` and `page` what sections 2 and 4 show.  Streamlit is external, with its
default `runner.fastReruns`: a click ends the run under way at once and starts
another (Begin), also when that run is blocked in a request or a sleep; what the
blocked call brings back is not used.  A POST given up in this way joins those the
page has stopped waiting for (`late`), so that several may be in flight; a GET or a
sleep given up leaves nothing behind.  The script is cut where it blocks and where a
click between two steps matters: the POST, storing the check_id, the GET, the
rendering, the sleep, the three writes of "Start a new check".  A reference is known
by the click that added it, and `meant` is the one that stood beside the "Remove" that
was clicked.  The service is an INSTANCE of CheckLifecycle, whose actions are taken
over one by one, except that completing a check is two steps (WriteStatus,
WritePayload), so that the page can read the torn answer of CheckService; a POST
may be answered, refused, lost, or accepted after the page has given it up.  Checks
are numbered in the order the service draws their identifiers.  `meant`, `clicks`,
`submits`, `parted` and `restarts` are history and bounds.

**Validation** holds what the program asks of a reference before it processes
it, in the five places that ask: validate_shape, validate_raw_input, phase 0 of
the batch pipeline (`InputValid`), run_reference (`Processable`) and the form of
the web page (`FormAccepts`).  A text is its length and its length after strip().

**Scoring** holds the pure nodes as operators: `DiffFacts`, `FormDiscrepancies`,
`Score`, `NeedsReview`, `CrossFlags`, `OverallNeedsReview`.  Names, companies and
titles stand for their class under `strip().lower()`; months are numbers or
Unparsable; red flags are counted.  The overall score is kept multiplied by the
number of references, so that the average stays an integer.

**CandidateGraph** is one run of the graphs: `pc[r]` is the superstep of the
subgraph of reference r, `call[r]` the two parallel calls of a REF1 reference,
`state[r]` its ReferenceCheckState, `result[r]` its entry in reference_results,
`stage` the superstep of the candidate graph.  LangGraph is external: it runs
at most `limit` tasks of a superstep at a time, ends a superstep when all
of its tasks have ended, and gives up a run with a task that raised.

**ReviewPolicy** is what the graphs are said to guarantee: one verdict per
reference, the ones that could not be processed left to a human, the candidate
cleared only when all of them are.

**BatchPipeline** has one action per phase; `shape` is how many references each
candidate has, `input`, `facts` and `feeling` are what was asked and answered,
`state` the dictionaries, None standing for an entry that is not there, `result` the
assembled ReferenceResults.  "aborted" is an exception of the backend, "crashed" one of
the pipeline itself.  Where its code can raise is one definition, RaisesOn: a
dictionary that is asked for a reference it does not hold, a failed sentiment item, a
form that is missing, a candidate without results.  Every phase goes on only if it
raises on nothing.  References
of one candidate have distinct names here; what equal names do is the subject of
CandidateGraph_names.

**BatchPromise** and **BatchBackend**: what `llm/batch/base.py` asks of
`run_batch_sync`, and how the two backends do it (`backend` is the one the
caller chose, `configured` whether bucket and role are set).  `job[i]` is the
status of a job at the service, which proceeds on its own; Bedrock's input is
uploaded before its job is created.  `output[x]` is what the service wrote for an
item and `results[x]` what AnthropicEntry or BedrockRecord makes of it; `waited`
counts poll intervals.

**StructuredCall** is the retry loop: `maxRetries` is LLM_MAX_RETRIES, `attempt`
tenacity's counter, `inner` the SDK's, `last` how the last request ended.  What
a provider retries, and what it finds in an answer, is one operator per provider
(`BedrockRetryable`, `OpenRouterToolInput`, ...).

**MC...** modules give the constants values for TLC.  The
modules named **...Proofs** hold the theorems.  Definitions marked "Faulty
variant" belong to no specification: each is what a plausible mistake would make
of the definition that follows it, and is substituted for it to see that a
property notices.

## Runs

| run | shows | bounds |
|---|---|---|
| CheckService_safety | records, answers, callbacks are truthful; ImplementsLifecycle | 2 checks, 1 client, 2 threads, 1 restart |
| CheckService_live | every accepted check ends, every GET with a thread is answered; the life cycle's fairness is implemented | 1 check, 2 clients, 2 threads, 1 restart |
| CandidateGraph_safety | sequential results, dates judged by distance, the barrier before the overall nodes, isolation, clean clearance, implements ReviewPolicy, every run ends | 2 references of 8 kinds (4 of them invalid), 5 readings, 3 sentiments, 1 or 2 threads |
| BatchPipeline_safety | same results and verdicts as the graph; noticed failures flagged; what it can crash on | 2 candidates with 2 and 1, or 2 and 0, references of 6 kinds (3 of them invalid) |
| StructuredCall_safety | bounded requests, truthful exceptions, valid answers, an end | 2 calls of 3 providers, LLM_MAX_RETRIES 0 or 3, 1 SDK retry |
| BatchBackend_safety | whole batches or none, bounded wait | 3 items, 2 jobs (Bedrock) or 1 batch (Anthropic), limit of 2 intervals |
| StreamlitClient_safety | the page is truthful, one POST per submission, orphans and lost clicks have a cause; Remove takes the right reference; refreshes end | 2 checks, 2 references, 3 clicks or reloads, 1 restart |

Why these are enough.  For safety, two checks are needed for anything one could
do to the other (the lock, the pool, a wrong payload); a third adds no new kind
of interaction, because checks meet only at the lock and in the pool.  With two
threads a poll and a task run at the same time, which is where reads tear.  For
liveness the rivals of a check are the GETs: two clients fill the pool of two
threads as often as they like and take the lock while the task waits for it, and
they compete with each other when the task has ended; a second check would only
be a rival that ends.  The values of dates, ratings and red flags fall on both
sides of every comparison of the scoring nodes with the weights of `config.py`.
Two references make every disagreement; with a limit of one the second
reference, and the second call of a REF1 reference, wait for a thread.  Zero is
the value of LLM_MAX_RETRIES at which tenacity's stop condition could miss, and
three leaves an attempt between the first and the last.  MaxCrashes bounds
restarts: a second one finds the same states again.  Three clicks are what it
takes to submit, to do something that matters while that check runs, and to
interrupt it; a session may start with candidate and reference entered, so that
none is spent on them.  Two references are what it takes for one to move to another's
place.  Both bounds of raw_input are met from both sides, with
the stripped and the whole length apart.  Where a server can
legitimately stop stepping (its clients have gone quiet) the configuration turns
the deadlock check off; the other modules state their end as an action.

Runs that are expected to fail state what a document, docstring or test of the
repository says and the code does not do:

| run | counterexample |
|---|---|
| CheckService_torn | GET between the two writes answers completed without a result |
| CandidateGraph_names | opposite ratings of two references of one name are not flagged |
| BatchPipeline_isolation | one failed sentiment item raises a ValidationError in phase 2, for all candidates |
| BatchPipeline_flagged | a failed extract item scores as "nothing stated" and is cleared |
| StructuredCall_timeout | a Bedrock read timeout is not retried |

More behaviours met while modelling are in the models without a run of their own.

* A Bedrock job that ends as PartiallyCompleted or Expired is a final status the
  wait loop does not know: Poll waits until the limit and then raises "did not
  finish".
* An answer without a tool call, or of the wrong shape, raises at once, outside
  the retry loop, although the docstring of StructuredCallError speaks of "after
  all retries".  An OpenRouter answer without choices raises an IndexError instead, or
  a TypeError if null stands for their list (EndsTruthfully says exactly when).
* The Anthropic and OpenAI clients retry 408 and 409 themselves; no provider does
  after them.
* When the overall summary item of a batch fails, the text put in its place says
  "Manual review required" (`batch_runner.py:403`); the flag, line 412, stays
  what the references made it (MatchesRealTime).
* "Auto-refresh every 3s until done" (`streamlit_app.py:179`) is until done or
  until the first GET that fails: RefreshEnds lists every way the chain ends.
* A click on "Start a new check" while auto-refresh waits for an unfinished check
  is swallowed, because the script reruns above that button
  (NewCheckLostOnlyToRefresh).
* A click while the page waits for the 202, or at the moment it arrives, ends the
  run before the check_id is stored: the check runs and the page does not know it
  (OrphansHaveACause).  After a failed resubmission the page goes on showing the
  previous check.
* A click between two of the writes of "Start a new check" leaves a session without
  references but with its candidate, or with its check.
* "Remove" is known by its place: on a list that is being redrawn after an earlier
  removal, a click takes the reference that has moved there.  On a page at rest it
  takes the one it stands beside (RemovesWhatWasMeant).
* The minimum of the web form is a literal 10 and it knows no maximum: a text it
  accepts may still be refused by run_reference, which reports it for review.
  run_reference does not call validate_shape, as the docstring of validate_shape
  says it does; for a form that is missing the exception of its evaluation has the
  same effect (Processable, MatchesRealTime).

### Fairness

Threads that can run do run: weak fairness of every step of a task and of a
poll.  The thread pool hands tokens out in the order in which they were asked
for, so a scheduled task is not overtaken for ever: strong fairness of
StartTask.  `app.invoke` ends because every model call does (CandidateGraph's
RunEnds, StructuredCall's CallEnds: timeouts and a bounded number of attempts).
Clients, crashes and the batch services owe nothing.  The script of the page runs
on because its requests have timeouts and its sleep ends (weak fairness of
ScriptStep); there the steps of the service are fair as well, which is what
CheckService_live shows of it.  The user, and requests the page has given up, owe
nothing.

## Proofs

Eight modules of theorems, each about one module (CheckService has two).  Every
safety property of the passing runs, action properties included, is proved.

**The check store** (CheckServiceProofs, CheckAnswersProofs), for any checks,
pollers, thread-pool size and number of restarts:

* `Typing`, `TaskKnown`, `Consistency`, `CallbackFinality`: the invariants TypeOK,
  RecordTellsTask, RecordConsistent and CallbackIsFinal of the safety run;
  `MutualExclusion`: LockDiscipline, which no run needs to check besides.
  TypeOK alone is not inductive: SetStatus copies `outcome`, which is a status only
  because Invoke came before.
  RecordTellsTask ties the control point of a task to every field of its record
  and to its outcome; with the lock held exactly by the task between the two
  ends of `_update`, and with the callback being the last step of a task, the
  conjunction IInv is preserved by every step.  Polls change nothing it speaks
  about except their own types (`PollsOnlyRead`).
* `NoMixedAnswer`, `NotFoundMeansLost`, `FreshAnswer`: what clients are told
  (AnswersNeverMix, NotFoundOnlyIfLost, AnswersNotStale).  IInv says nothing of
  what a GET has read so far, so AInv adds it: records only advance, every field
  read lies between the record at the start of the GET and the record now, and
  an identifier that was handed out is in the store or lost.  A torn view is
  sound in this sense although it is no state the record ever had.
* `Refinement`: Spec => ImplementsLifecycle.  The mapping shows a record as
  running until its second field is written; so SetPayload is the step that
  finishes a check, SetStatus is starting it or invisible, a restart loses every
  check that is there, and all other steps, polls included, leave the view alone.

**Scoring** (ScoringProofs), for any weights and thresholds: a score is a
percentage (`ScoreIsPercentage`), a reference not left to a human is clean
(`ClearedIsClean`), further discrepancies or red flags neither raise a score nor
withdraw a review (`MoreIsWorse`), a date is judged by its distance from the claimed
one (`DatesOfDiff`), a candidate without cross-reference flags has references that
agree on title and company (`UnflaggedAgree`), and one review is enough for the
candidate's (`ReviewSpreads`).

**The graphs** (CandidateGraphProofs), for any number of references, any inputs,
model answers and limits on concurrency:

* `Typing`, `EveryoneReported`, `Sequential`, `ClearedMeansClean`, `Finality`: the
  properties TypeOK, EveryReferenceReported, ResultsAreSequential,
  ClearedCandidateIsClean and ResultsAreFinal (no result changes, and the overall
  nodes begin only when every reference has one).  `DatesAreJudged` (DatesJudged)
  follows from Sequential and a lemma of ScoringProofs.  That a result is sequential says
  nothing of the supersteps before it, so the invariant follows each reference
  through them (Progress): which inputs can be there, that the discrepancies
  are those of the facts now in the state (Gathered), and that score and verdict
  are theirs (Scored).  CallsSettled says that calls are in flight in the first
  superstep only: an answer that arrived later would change what was
  already compared.  Overall keeps the candidate graph behind its barrier.  A step of
  one reference leaves the others alone (StepSound), so that the work is one lemma
  per node.
* `Refinement`: Spec => ImplementsPolicy, from the same invariant: a failure in a
  node makes the reference unread and leaves it to a human in one step; a raised call
  makes it unread first; ScoreOverall is the policy's Conclude.

* `ConflictsFlagged`: ConflictingRatingsFlagged, for references of which no two
  have the same name.  The hypothesis is the theorem's own and cannot be dropped:
  CandidateGraph_names is the counterexample.

**The batch pipeline** (BatchPipelineProofs), for any candidates, numbers of
references, inputs and answers of the items: `Typing`, `RealTimeEquivalence`
(MatchesRealTime: results, and the verdict that follows from them),
`FailuresFlagged` (NoticedFailuresFlagged) and `CrashCause` (CrashHasACause: of
everything RaisesOn lists, only two things ever happen).  The first three speak of the
end; the invariant says what every
dictionary holds after each phase, for one reference at a time and in terms of its
own answers only.  ReadDone: which items were answered.  Compared: facts,
discrepancies, sentiment and red flags are those of its answers, a comments item
that failed counting for nothing.  So every reference that is processed has its entries
(`EntryMade`), which is what leaves the phases two things to raise on
(`RaisingCause`).  Scored: score and verdict are those of that state.  Reported: the result is assembled from it.  Judged: the verdict on a
candidate is that of its results.  Each phase is one lemma; Summarize and Conclude
write one set, `unsummarized`, which is why references and candidates must be told
apart (KeysAssumption).  That the two validations agree is a lemma of its own
(`SameValidation`): it holds for the two types the schema admits.  From the same
invariant follows how much a verdict of the pipeline is worth (`ClearedMeansClean`):
all that ClearedCandidateIsClean says of the graph, except that the references were
read, which BatchPipeline_flagged refutes.

**The web page** (StreamlitClientProofs), for any identifiers, inputs of the form
and bounds on clicks, references and restarts: `Typing`, `OneCheckEach`
(OneCheckPerSubmission), `PageIsTruthful` (PageTruthful), `OrphansExplained`
(OrphansHaveACause), `NewCheckHandled` (NewCheckLostOnlyToRefresh) and
`RemovalAsMeant` (RemovesWhatWasMeant).  None of the
invariants is inductive: IInv, which TLC found to hold on the instance of
StreamlitClient_safety before it was proved, adds

* Counted: a POST the page has given up, and a run whose submission has not become a
  check yet, count as well;
* ButtonsFit: the buttons of the upper sections are handled first, and "Add
  reference" is there only while there is room;
* ListRight: the list on the page is that of the session, except in a run that has
  not come to it or is clearing the session; so a "Remove" clicked on a page at rest
  still finds its reference;
* Clearing: how far "Start a new check" has come;
* Known: the session and a pending 202 name accepted checks, and a 202 is pending
  only at the point where it is stored;
* PageRight and AnswerRight: what is shown, and what a GET has brought back and is
  still to be shown, is true of the check in a sense (Truthful) that no step of the
  service can falsify, a restart included;
* RefreshRight: the script sleeps only for an unfinished check and only if asked to.

The proof has a lemma per conjunct.  `ServiceKept` shows that the service as the page meets it
keeps the promise of CheckLifecycle, which CheckService was shown to implement.

**Structured calls** (StructuredCallProofs), for any callers and retry settings:
`Typing`, `LoadBounded` (RequestsBounded), `TruthfulEnd` (EndsTruthfully).  The
invariant adds per caller how many requests its attempts can have cost so far
(Budget), and what the last request says of how the call ended (Outcome).

**Batch backends** (BatchBackendProofs), for any items, models and time limits:
`Typing`, `WholeBatches` (OnlyEndedJobsAreRead), `WaitLimited` (WaitBounded),
`TruthfulRaise` (RaisesTruthfully), and `PromiseKept`: a backend implements
BatchPromise.  The invariant says at each control point which jobs exist, which
of them have been waited for, and how much of the time limits is used up; that
the jobs partition the items is what makes the promise of one result per item
follow from the results of the jobs.

The assumptions are those of the modules: a positive number of threads and of
references, weights and limits that are naturals, sentinels (Free, None, Failed,
Unparsable) distinct from what they stand beside (an answer, a sentiment, a rating, a
number), a claimed start date that is a month or Unparsable,
references that are no candidates, inputs of the two types the schema admits,
a form that lets no input through that the service answers with 400, and a list of
models that names each model of the items once and no other.

Only model-checked: everything about fairness (EveryCheckSettles,
EveryPollAnswered, RunEnds, CallEnds, RefreshEnds and the fair
promises KeepsPromise and ImplementsFairLifecycle), which the prover cannot treat;
and what recursively defined functions such as TotalScore compute, which would
need induction over data.

## Not modelled

`warm_up`, which the startup event runs before the first request; `/health` and
`/api/v1/schema`, which touch no state; requests rejected with 400, which never
reach the store (Validation says which they are); prompts and request builders,
which are text; logging and its scrubbing, which are output; prompt caching,
which changes what a request costs; the choice of model ids and of the provider
class, made once at startup; the demo scripts, sample data, generated documents
and container files.  The injection patterns of `validation.py` only log.  The
listing of S3 files and the wording of summaries are abstracted, and so are the
fields of the page beyond what its forms check.

## Plan

1. Done: CheckLifecycle, CheckService, its proofs and its refinement; Scoring,
   CandidateGraph, ReviewPolicy; BatchPipeline; StructuredCall; BatchBackend and
   BatchPromise; Validation and StreamlitClient.
2. Done: the theorems of the section "Proofs".
3. Done: the theorems about BatchPipeline and StreamlitClient.
4. Left: relating the two pipelines further (a run of the batch pipeline as a run of
   ReviewPolicy, as far as its noticed failures go), and the end of a batch as the
   environment of BatchPipeline's phases.
