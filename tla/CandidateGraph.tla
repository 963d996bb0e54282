--------------------------- MODULE CandidateGraph ---------------------------
(***************************************************************************)
(* One run of the real-time graphs for one candidate: the fan-out over the *)
(* references (graphs/candidate_graph.py), the single-reference subgraph   *)
(* each of them goes through (graphs/reference_graph.py, REF1 for open     *)
(* text, REF2 for a yes/no form), the failure isolation of run_reference,  *)
(* and the overall nodes that wait for all of them.                        *)
(*                                                                         *)
(* LangGraph, which is external, runs the nodes of a superstep in a thread *)
(* pool of `limit' threads of its own, starts the next superstep     *)
(* when all of them have ended, and abandons a run one of whose nodes has  *)
(* raised.  A model call (llm.structured_call) returns a value or raises.  *)
(***************************************************************************)
EXTENDS Scoring

CONSTANTS References,      \* how many references the candidate has
          ConcurrencyLimits, \* the values config.MAX_CONCURRENT_REFERENCES may have
          Claimed,         \* the candidate's claimed_details
          NameOf,          \* reference_name of each reference
          Inputs,          \* the inputs a reference may have
          FactsRead,       \* what extract_facts may read
          Feelings         \* what a sentiment call may answer: sentiment, red flags

Refs == 1..References

\* submit_check rejects a request without references; a reference_name is not
\* None.
ASSUME GraphAssumption ==
    /\ References \in Nat \ {0}
    /\ \A r \in Refs : NameOf[r] # None
    /\ ConcurrencyLimits \subseteq Nat \ {0}
    /\ \A i \in Inputs : i.type \in {"open_text", "yes_no"}
    /\ \A f \in Feelings : f.sentiment \in Sentiments /\ f.redFlags \in Nat
    \* a claim has a start date; any text may be given as a date
    /\ Claimed.start_date # None
    /\ \A dates \in FactsRead \cup {Claimed} :
          {dates.start_date, dates.end_date} \subseteq Int \cup {None, Unparsable}

VARIABLES limit,     \* config.MAX_CONCURRENT_REFERENCES, read once at start
          input,     \* input[r]: the ReferenceInput of r
          pc,        \* pc[r]: the superstep the subgraph of r is in
          call,      \* call[r]: state of the two parallel calls of a REF1 reference
          state,     \* state[r]: the ReferenceCheckState of r
          result,    \* result[r]: the ReferenceResult of r, once it has one
          stage,     \* the superstep of the candidate graph
          flags,     \* cross_reference_flags
          review     \* overall_needs_review

vars == <<limit, input, pc, call, state, result, stage, flags, review>>

Calls == {"extract", "feel"}

NoState == [facts |-> NoFacts, discrepancies |-> {}, sentiment |-> "neutral",
            redFlags |-> 0, score |-> 0, review |-> FALSE]

NoResult == [name |-> None, facts |-> NoFacts, discrepancies |-> {},
             sentiment |-> "neutral", redFlags |-> 0, score |-> 0, review |-> FALSE]

Steps == {"waiting", "reading", "explain", "comments", "score", "summarize", "done"}

TypeOK ==
    /\ limit \in ConcurrencyLimits
    /\ input \in [Refs -> Inputs]
    /\ pc \in [Refs -> Steps]
    /\ call \in [Refs -> [Calls -> {"todo", "calling", "ok", "raised"}]]
    /\ \A r \in Refs :
         /\ state[r].facts \in FactsRead \cup {NoFacts}
         /\ state[r].discrepancies \in Discrepancies
         /\ state[r].sentiment \in Sentiments
         /\ state[r].redFlags \in Nat
         /\ state[r].score \in 0..100
         /\ state[r].review \in BOOLEAN
         /\ result[r] # NoResult => /\ result[r].name = NameOf[r]
                                    /\ result[r].score \in 0..100
                                    /\ result[r].review \in BOOLEAN
    /\ stage \in {"fan_out", "score_overall", "summarize", "completed", "raised"}
    /\ flags \in Discrepancies
    /\ review \in BOOLEAN

Init ==
    /\ limit \in ConcurrencyLimits
    /\ input \in [Refs -> Inputs]
    /\ pc = [r \in Refs |-> "waiting"]
    /\ call = [r \in Refs |-> [k \in Calls |-> "todo"]]
    /\ state = [r \in Refs |-> NoState]
    /\ result = [r \in Refs |-> NoResult]
    /\ stage = "fan_out"
    /\ flags = {}
    /\ review = FALSE

-----------------------------------------------------------------------------
(* run_reference and the single-reference subgraphs *)

Goto(r, step) == pc' = [pc EXCEPT ![r] = step]

\* Faulty variant of Isolate: run_reference returns no result for a failure.
IsolateSilently(r) ==
    /\ Goto(r, "done")
    /\ UNCHANGED result

\* The exception handler of run_reference: the reference is reported as
\* unprocessed, whatever its subgraph had already computed.
Isolate(r) ==
    /\ result' = [result EXCEPT ![r] = Unprocessed(NameOf[r])]
    /\ Goto(r, "done")

Running == {r \in Refs : pc[r] \notin {"waiting", "done"}}

\* validate_raw_input comes first for REF1; a form is evaluated at once, and
\* evaluating no form raises.
Enter(r) ==
    LET form == input[r].form IN
    \/ /\ input[r].type = "open_text" /\ Processable(input[r])
       /\ Goto(r, "reading")
       /\ UNCHANGED <<state, result>>
    \/ /\ input[r].type = "yes_no" /\ Processable(input[r])
       /\ state' = [state EXCEPT ![r].discrepancies = FormDiscrepancies(form),
                                 ![r].redFlags = FormRedFlags(form)]
       /\ Goto(r, IF form.additional_comments THEN "comments" ELSE "score")
       /\ UNCHANGED result
    \/ /\ ~Processable(input[r])
       /\ Isolate(r)
       /\ UNCHANGED state

ThreadFree == Cardinality(Running) < limit

\* Faulty variant of BeginReference: a reference that failed is run again.
BeginReferenceAgain(r) ==
    /\ stage = "fan_out" /\ pc[r] \in {"waiting", "done"} /\ ThreadFree
    /\ Enter(r)
    /\ UNCHANGED <<limit, input, call, stage, flags, review>>

\* run_reference gets a thread.
BeginReference(r) ==
    /\ stage = "fan_out" /\ pc[r] = "waiting" /\ ThreadFree
    /\ Enter(r)
    /\ UNCHANGED <<limit, input, call, stage, flags, review>>

\* extract_facts and sentiment_and_redflags are the two nodes of the first
\* superstep of REF1, each in a thread of the subgraph's own pool.  One that is
\* queued may get its thread although the other has raised.
StartCall(r, k) ==
    /\ pc[r] = "reading"
    /\ call[r][k] = "todo"
    /\ Cardinality({j \in Calls : call[r][j] = "calling"}) < limit
    /\ call' = [call EXCEPT ![r][k] = "calling"]
    /\ UNCHANGED <<limit, input, pc, state, result, stage, flags, review>>

ReturnFacts(r) ==
    /\ call[r]["extract"] = "calling"
    /\ call' = [call EXCEPT ![r]["extract"] = "ok"]
    /\ \E f \in FactsRead : state' = [state EXCEPT ![r].facts = f]
    /\ UNCHANGED <<limit, input, pc, result, stage, flags, review>>

ReturnFeeling(r) ==
    /\ call[r]["feel"] = "calling"
    /\ call' = [call EXCEPT ![r]["feel"] = "ok"]
    /\ \E f \in Feelings :
          state' = [state EXCEPT ![r].sentiment = f.sentiment, ![r].redFlags = f.redFlags]
    /\ UNCHANGED <<limit, input, pc, result, stage, flags, review>>

RaiseCall(r, k) ==
    /\ call[r][k] = "calling"
    /\ call' = [call EXCEPT ![r][k] = "raised"]
    /\ UNCHANGED <<limit, input, pc, state, result, stage, flags, review>>

\* One of the two raised, and no call is in flight any more; a call that has
\* not started is cancelled.
ReadingRaised(r) ==
    LET calls == {call[r][k] : k \in Calls} IN
    pc[r] = "reading" /\ "raised" \in calls /\ "calling" \notin calls

\* Faulty variant of AbandonReading: the calls are made again, without limit.
AbandonReadingRetried(r) ==
    /\ ReadingRaised(r)
    /\ call' = [call EXCEPT ![r] = [k \in Calls |-> "todo"]]
    /\ UNCHANGED <<limit, input, pc, state, result, stage, flags, review>>

\* invoke raises.
AbandonReading(r) ==
    /\ ReadingRaised(r)
    /\ Isolate(r)
    /\ UNCHANGED <<limit, input, call, state, stage, flags, review>>

Diff(r) ==
    LET found == DiffFacts(Claimed, state[r].facts) IN
    /\ state' = [state EXCEPT ![r].discrepancies = found]
    /\ Goto(r, IF found = {} THEN "score" ELSE "explain")
    /\ UNCHANGED <<limit, input, call, result, stage, flags, review>>

\* Faulty variant of DiffFactsNode: it has an edge from extract_facts only.
DiffFactsNodeEarly(r) == pc[r] = "reading" /\ call[r]["extract"] = "ok" /\ Diff(r)

\* Both returned: diff_facts runs once, on what both wrote.
DiffFactsNode(r) ==
    pc[r] = "reading" /\ {call[r][k] : k \in Calls} = {"ok"} /\ Diff(r)

\* Adds notes, which nothing but the wording of the summary depends on.
ExplainDiscrepancies(r) ==
    /\ pc[r] = "explain"
    /\ \/ Goto(r, "score") /\ UNCHANGED result
       \/ Isolate(r)
    /\ UNCHANGED <<limit, input, call, state, stage, flags, review>>

SentimentFromComments(r) ==
    /\ pc[r] = "comments"
    /\ \/ /\ \E f \in Feelings :
               state' = [state EXCEPT ![r].sentiment = f.sentiment,
                                      ![r].redFlags = @ + f.redFlags]
          /\ Goto(r, "score")
          /\ UNCHANGED result
       \/ Isolate(r) /\ UNCHANGED state
    /\ UNCHANGED <<limit, input, call, stage, flags, review>>

ScoreConfidence(r) ==
    LET s == state[r] IN
    /\ pc[r] = "score"
    /\ state' = [state EXCEPT
          ![r].score = Score(s.discrepancies, s.redFlags, s.sentiment),
          ![r].review = NeedsReview(s.discrepancies, s.redFlags, s.sentiment)]
    /\ Goto(r, "summarize")
    /\ UNCHANGED <<limit, input, call, result, stage, flags, review>>

\* flag_for_human_review or auto_summarize, which differ in their prompts; then
\* run_reference packages the state of the subgraph.
Summarize(r) ==
    LET s == state[r] IN
    /\ pc[r] = "summarize"
    /\ \/ /\ result' = [result EXCEPT ![r] =
                [name |-> NameOf[r], facts |-> s.facts, discrepancies |-> s.discrepancies,
                 sentiment |-> s.sentiment, redFlags |-> s.redFlags,
                 score |-> s.score, review |-> s.review]]
          /\ Goto(r, "done")
       \/ Isolate(r)
    /\ UNCHANGED <<limit, input, call, state, stage, flags, review>>

ReferenceStep(r) ==
    \/ BeginReference(r)
    \/ \E k \in Calls : StartCall(r, k) \/ RaiseCall(r, k)
    \/ ReturnFacts(r) \/ ReturnFeeling(r) \/ AbandonReading(r) \/ DiffFactsNode(r)
    \/ ExplainDiscrepancies(r) \/ SentimentFromComments(r)
    \/ ScoreConfidence(r) \/ Summarize(r)

-----------------------------------------------------------------------------
(* The candidate graph *)

\* Faulty variant of CrossCheckReferences: it waits for the references that have
\* a thread, not for the queued ones.
CrossCheckReferencesEarly ==
    /\ stage = "fan_out"
    /\ Running = {} /\ \E r \in Refs : pc[r] = "done"
    /\ flags' = CrossFlags(result)
    /\ stage' = "score_overall"
    /\ UNCHANGED <<limit, input, pc, call, state, result, review>>

\* The barrier: run_reference is one superstep, however many tasks it has.
CrossCheckReferences ==
    /\ stage = "fan_out"
    /\ \A r \in Refs : pc[r] = "done"
    /\ flags' = CrossFlags(result)
    /\ stage' = "score_overall"
    /\ UNCHANGED <<limit, input, pc, call, state, result, review>>

ScoreOverall ==
    /\ stage = "score_overall"
    /\ review' = OverallNeedsReview(result, flags)
    /\ stage' = "summarize"
    /\ UNCHANGED <<limit, input, pc, call, state, result, flags>>

\* overall_flag_for_review or overall_clear.  Nothing isolates this call: if it
\* raises, so does app.invoke.
OverallSummary ==
    /\ stage = "summarize"
    /\ stage' \in {"completed", "raised"}
    /\ UNCHANGED <<limit, input, pc, call, state, result, flags, review>>

Ended == stage \in {"completed", "raised"} /\ UNCHANGED vars

Step == CrossCheckReferences \/ ScoreOverall \/ OverallSummary
        \/ \E r \in Refs : ReferenceStep(r)

Next == Step \/ Ended

Spec == Init /\ [][Next]_vars

\* Threads run on, and a model call ends (StructuredCall).
FairSpec == Spec /\ WF_vars(Step)

-----------------------------------------------------------------------------
(* Properties *)

\* A reference all of whose answers were read gets the result the sequential
\* reading of the graph gives, whichever way its calls and those of the other
\* references were interleaved: no reference sees a half-updated state.
Readable(r) == result[r] # NoResult /\ result[r].sentiment # "unclear"

ResultsAreSequential ==
    \A r \in Refs : Readable(r) =>
        LET s == state[r]
            found == IF input[r].type = "open_text" THEN DiffFacts(Claimed, s.facts)
                     ELSE FormDiscrepancies(input[r].form)
        IN /\ result[r] = Result(NameOf[r], s.facts, found, s.sentiment, s.redFlags)
           /\ input[r].type = "open_text" => \A k \in Calls : call[r][k] = "ok"
           /\ input[r].type = "yes_no" => s.redFlags >= FormRedFlags(input[r].form)

\* What the dates a reference stated count for, in the result that is reported:
\* a month on either side of the claimed one is judged by its distance, one
\* that does not parse is never held against the candidate, and an end is a
\* major contradiction of a claim to be still employed, however it is written.
DatesJudged ==
    \A r \in Refs : Readable(r) /\ input[r].type = "open_text" =>
        \A field \in {"start_date", "end_date"} :
            LET claim == Claimed[field]
                said == result[r].facts[field]
                around(months) == (claim - months)..(claim + months)
            IN {d.severity : d \in {e \in result[r].discrepancies : e.field = field}} =
                 CASE said = None -> {}
                   [] said # None /\ claim = None -> {"major"}
                   [] None \notin {said, claim} /\ Unparsable \in {said, claim} -> {}
                   [] {said, claim} \subseteq Int ->
                        IF said \in around(MinorMonthTolerance) THEN {}
                        ELSE IF said \in around(ModerateMonthTolerance) THEN {"moderate"}
                        ELSE {"major"}

\* Failure isolation: the references of a candidate cannot make its run fail;
\* when the run ends every one of them, failed or not, has its result.
EveryReferenceReported ==
    stage # "fan_out" => \A r \in Refs : pc[r] = "done" /\ result[r] # NoResult

\* A candidate is cleared without human review only if every reference was
\* read to the end, reached the threshold with no major discrepancy and no red
\* flag, and no two contradict each other on title or company.
ClearedCandidateIsClean ==
    stage = "completed" /\ ~review =>
        /\ \A r \in Refs :
              /\ Readable(r)
              /\ InputValid(input[r])
              /\ result[r].score >= ReviewThreshold /\ result[r].redFlags = 0
              /\ \A d \in result[r].discrepancies : d.severity # "major"
        /\ \A q, r \in Refs : \A field \in {"job_title", "company"} :
              result[q].facts[field] = result[r].facts[field]
              \/ None \in {result[q].facts[field], result[r].facts[field]}

\* What the docstring of cross_check_references says: references that disagree
\* with each other are flagged.  Two references of the same name are not.
ConflictingRatingsFlagged ==
    stage \in {"summarize", "completed"} =>
        ({"strong", "weak"} \subseteq {result[r].facts.performance_rating : r \in Refs}
         => \E d \in flags : d.field = "performance_rating")

\* Once a reference has its result nothing changes it, and no overall node runs
\* before the last of them has its own, be it queued for a thread.
ResultsAreFinal ==
    [][/\ \A r \in Refs : result[r] # NoResult => result'[r] = result[r]
       /\ stage' # stage => \A r \in Refs : result[r] # NoResult]_vars

\* app.invoke comes back: every call that is made ends, so does the run.
RunEnds == <>(stage \in {"completed", "raised"})

-----------------------------------------------------------------------------
(* The review policy this graph implements. *)
Policy == INSTANCE ReviewPolicy WITH
    verdict <- [r \in Refs |->
                  IF result[r] = NoResult THEN "pending"
                  ELSE IF result[r].review THEN "review" ELSE "cleared"],
    unread <- [r \in Refs |->
                  \/ pc[r] = "done" /\ ~Readable(r)
                  \/ "raised" \in {call[r][k] : k \in Calls}],
    overall <- IF stage \in {"fan_out", "score_overall"} THEN "pending"
               ELSE IF review THEN "review" ELSE "cleared"

ImplementsPolicy == Policy!Spec
=============================================================================
