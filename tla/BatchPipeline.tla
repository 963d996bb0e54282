--------------------------- MODULE BatchPipeline ---------------------------
(***************************************************************************)
(* run_batch_pipeline of pipelines/batch_runner.py: all references of all  *)
(* candidates go through the same steps as in CandidateGraph, but phase by *)
(* phase, each phase's model calls sent as one batch.                      *)
(*                                                                         *)
(* backend.run_batch_sync, the subject of BatchBackend, either returns one *)
(* result per item, each of them a value or a failure, or raises: then the *)
(* pipeline is aborted.  An exception of the pipeline's own code ends it   *)
(* as well; that is told apart as "crashed".                               *)
(***************************************************************************)
EXTENDS Scoring

CONSTANTS Candidates,    \* the candidates of the batch
          Shapes,        \* how many references each candidate may have
          Claimed,       \* Claimed[c]: the claimed_details of c
          Inputs,        \* the inputs a reference may have
          FactsRead,     \* what an extract item may answer
          Feelings,      \* what a sentiment item may answer
          Failed         \* the result of an item with success = False

ASSUME BatchAssumption ==
    /\ Shapes \subseteq [Candidates -> Nat]
    /\ {Failed, None} \cap (FactsRead \cup Feelings) = {} /\ Failed # None
    /\ None \notin Sentiments
    /\ \A i \in Inputs : i.type \in {"open_text", "yes_no"}
    /\ \A f \in Feelings : f.sentiment \in Sentiments /\ f.redFlags \in Nat

VARIABLES shape,        \* shape[c]: how many references candidate c has
          input,        \* input[k]: the ReferenceInput of k
          phase,        \* the phase that runs next, or how the pipeline ended
          invalid,      \* invalid_refs
          facts,        \* answer of the extract item of k, None if it has none
          feeling,      \* answer of the sentiment item of k, None if it has none
          state,        \* the *_by_ref dictionaries
          result,       \* reference_results_by_candidate
          flags,        \* cross_flags_by_candidate
          review,       \* overall_needs_review_by_candidate
          unsummarized  \* the references and candidates whose summary item failed

vars == <<shape, input, phase, invalid, facts, feeling, state, result, flags, review, unsummarized>>

\* A reference is named by its (c_idx, r_idx), the key of the *_by_ref
\* dictionaries and the part of a custom_id that _parse_cid recovers.
KeysOf == [s \in Shapes |-> UNION {{c} \X (1..s[c]) : c \in Candidates}]

\* A candidate (its c_idx) is not taken for a reference.
ASSUME KeysAssumption == \A s \in Shapes : Candidates \cap KeysOf[s] = {}

Keys == KeysOf[shape]

Phases == {"validate", "read", "diff", "comments", "explain", "score", "summarize",
           "overall", "conclude", "done", "aborted", "crashed"}

\* sentiment is None while the reference has no entry in the dictionaries of
\* phase 2, score while it has none in those of phase 5.
NoState == [facts |-> NoFacts, discrepancies |-> {}, sentiment |-> None,
            redFlags |-> 0, score |-> None, review |-> FALSE]

NoResult == [name |-> None]

Valid == Keys \ invalid

OfType(type) == {k \in Valid : input[k].type = type}

Commented == {k \in OfType("yes_no") : input[k].form.additional_comments}

TypeOK ==
    /\ shape \in Shapes
    /\ input \in [Keys -> Inputs]
    /\ phase \in Phases
    /\ invalid \subseteq Keys
    /\ facts \in [Keys -> FactsRead \cup {None, Failed}]
    /\ feeling \in [Keys -> Feelings \cup {None, Failed}]
    /\ \A k \in Keys : /\ state[k].discrepancies \in Discrepancies
                       /\ state[k].sentiment \in Sentiments \cup {None}
                       /\ state[k].redFlags \in Nat
                       /\ state[k].score \in (0..100) \cup {None}
                       /\ state[k].review \in BOOLEAN
                       /\ result[k] # NoResult => result[k].name = k
    /\ flags \in [Candidates -> Discrepancies]
    /\ review \in [Candidates -> BOOLEAN]
    /\ unsummarized \subseteq Keys \cup Candidates

Init ==
    /\ shape \in Shapes
    /\ input \in [Keys -> Inputs]
    /\ phase = "validate"
    /\ invalid = {}
    /\ facts = [k \in Keys |-> None]
    /\ feeling = [k \in Keys |-> None]
    /\ state = [k \in Keys |-> NoState]
    /\ result = [k \in Keys |-> NoResult]
    /\ flags = [c \in Candidates |-> {}]
    /\ review = [c \in Candidates |-> FALSE]
    /\ unsummarized = {}

-----------------------------------------------------------------------------
ResultsOf(c) == [r \in 1..shape[c] |-> result[<<c, r>>]]

\* Where the pure Python of a phase raises, by the references (or candidates)
\* it raises on:
\*   diff      phase1_results[...] without the answer that is looked up; a
\*             failed sentiment item, for which the code builds a
\*             SentimentAndRedFlags(sentiment="unclear") that its own schema
\*             rejects; a form that is not there
\*   comments, explain, score, summarize
\*             an entry that no earlier phase has put into a dictionary
\*   overall   score_overall divides by the number of results.
RaisesOn ==
    CASE phase = "diff"      -> {k \in OfType("open_text") : \/ facts[k] = None
                                                           \/ feeling[k] \in {None, Failed}}
                                \cup {k \in OfType("yes_no") : input[k].form = None}
      [] phase = "comments"  -> {k \in Commented : state[k].sentiment = None}
      [] phase = "explain"   -> {k \in OfType("open_text") : state[k].sentiment = None}
      [] phase = "score"     -> {k \in Valid : state[k].sentiment = None}
      [] phase = "summarize" -> {k \in Valid : state[k].score = None}
      [] phase = "overall"   -> {c \in Candidates : ResultsOf(c) = <<>>}
      [] OTHER               -> {}

\* Nothing catches what a phase raises: it leaves run_batch_pipeline.
Crash ==
    /\ RaisesOn # {}
    /\ phase' = "crashed"
    /\ UNCHANGED <<shape, input, invalid, facts, feeling, state, result, flags, review, unsummarized>>

\* Phase 0.
Validate ==
    /\ phase = "validate"
    /\ invalid' = {k \in Keys : ~InputValid(input[k])}
    /\ phase' = "read"
    /\ UNCHANGED <<shape, input, facts, feeling, state, result, flags, review, unsummarized>>

\* Phase 1: extract and sentiment items of the valid REF1 references.
Read ==
    LET asked == OfType("open_text") IN
    /\ phase = "read"
    /\ \E f \in [asked -> FactsRead \cup {Failed}], g \in [asked -> Feelings \cup {Failed}] :
         /\ facts' = [k \in Keys |-> IF k \in asked THEN f[k] ELSE None]
         /\ feeling' = [k \in Keys |-> IF k \in asked THEN g[k] ELSE None]
    /\ phase' = "diff"
    /\ UNCHANGED <<shape, input, invalid, state, result, flags, review, unsummarized>>

\* Phase 2.  A failed extract item counts as "nothing was stated".
Diff ==
    LET stated(k) == IF facts[k] = Failed THEN NoFacts ELSE facts[k] IN
    /\ phase = "diff"
    /\ RaisesOn = {}
    /\ state' = [k \in Keys |->
          IF k \in OfType("open_text")
          THEN [NoState EXCEPT !.facts = stated(k),
                               !.discrepancies = DiffFacts(Claimed[k[1]], stated(k)),
                               !.sentiment = feeling[k].sentiment,
                               !.redFlags = feeling[k].redFlags]
          ELSE IF k \in OfType("yes_no")
          THEN [NoState EXCEPT !.discrepancies = FormDiscrepancies(input[k].form),
                               !.sentiment = "neutral",
                               !.redFlags = FormRedFlags(input[k].form)]
          ELSE state[k]]
    /\ phase' = "comments"
    /\ UNCHANGED <<shape, input, invalid, facts, feeling, result, flags, review, unsummarized>>

\* Faulty variant of MergedFlags: those of the comments replace the others.
ReplacedFlags(form, comments) == comments

\* The red flags of a form with comments.
MergedFlags(form, comments) == form + comments

\* Phase 3: comments of the REF2 references; a failed item is passed over.
Comments ==
    /\ phase = "comments"
    /\ RaisesOn = {}
    /\ \E g \in [Commented -> Feelings \cup {Failed}] :
         LET heard == {k \in Commented : g[k] # Failed} IN
         /\ feeling' = [k \in Keys |-> IF k \in Commented THEN g[k] ELSE feeling[k]]
         /\ state' = [k \in Keys |->
               IF k \in heard
               THEN [state[k] EXCEPT !.sentiment = g[k].sentiment,
                                     !.redFlags = MergedFlags(@, g[k].redFlags)]
               ELSE state[k]]
    /\ phase' = "explain"
    /\ UNCHANGED <<shape, input, invalid, facts, result, flags, review, unsummarized>>

\* Phase 4 only adds notes to discrepancies, or fails to.
Explain ==
    /\ phase = "explain"
    /\ RaisesOn = {}
    /\ phase' = "score"
    /\ UNCHANGED <<shape, input, invalid, facts, feeling, state, result, flags, review, unsummarized>>

\* Phase 5.
ScoreAll ==
    /\ phase = "score"
    /\ RaisesOn = {}
    /\ state' = [k \in Keys |->
          LET s == state[k] IN
          IF k \in Valid
          THEN [s EXCEPT !.score = Score(s.discrepancies, s.redFlags, s.sentiment),
                         !.review = NeedsReview(s.discrepancies, s.redFlags, s.sentiment)]
          ELSE s]
    /\ phase' = "summarize"
    /\ UNCHANGED <<shape, input, invalid, facts, feeling, result, flags, review, unsummarized>>

\* Faulty variant of Assembled: a missing summary changes the text only.
AssembledUnflagged(k, missing) ==
    LET s == state[k] IN
    [name |-> k, facts |-> s.facts, discrepancies |-> s.discrepancies,
     sentiment |-> s.sentiment, redFlags |-> s.redFlags, score |-> s.score, review |-> s.review]

\* The ReferenceResult of a valid reference: one whose summary item failed is
\* left to a human.
Assembled(k, missing) ==
    LET s == state[k] IN
    [name |-> k, facts |-> s.facts, discrepancies |-> s.discrepancies,
     sentiment |-> s.sentiment, redFlags |-> s.redFlags, score |-> s.score,
     review |-> s.review \/ k \in missing]

\* Phase 6.
Summarize ==
    /\ phase = "summarize"
    /\ RaisesOn = {}
    /\ \E missing \in SUBSET Valid :
         /\ unsummarized' = missing
         /\ result' = [k \in Keys |-> IF k \in invalid THEN Unprocessed(k)
                                      ELSE Assembled(k, missing)]
    /\ phase' = "overall"
    /\ UNCHANGED <<shape, input, invalid, facts, feeling, state, flags, review>>

\* Phase 7.
Overall ==
    /\ phase = "overall"
    /\ RaisesOn = {}
    /\ flags' = [c \in Candidates |-> CrossFlags(ResultsOf(c))]
    /\ review' = [c \in Candidates |-> OverallNeedsReview(ResultsOf(c), flags'[c])]
    /\ phase' = "conclude"
    /\ UNCHANGED <<shape, input, invalid, facts, feeling, state, result, unsummarized>>

\* Phase 8 and the output.  A failed item changes the text of the summary only.
Conclude ==
    /\ phase = "conclude"
    /\ \E missing \in SUBSET Candidates : unsummarized' = unsummarized \cup missing
    /\ phase' = "done"
    /\ UNCHANGED <<shape, input, invalid, facts, feeling, state, result, flags, review>>

\* The items each batch phase would send; an empty batch is not sent at all.
Asked ==
    CASE phase = "read"      -> OfType("open_text")
      [] phase = "comments"  -> Commented
      [] phase = "explain"   -> {k \in OfType("open_text") : state[k].discrepancies # {}}
      [] phase = "summarize" -> Valid
      [] phase = "conclude"  -> Candidates
      [] OTHER               -> {}

\* run_batch_sync raises: a time limit, a failed job, a network error.
Abort ==
    /\ Asked # {}
    /\ phase' = "aborted"
    /\ UNCHANGED <<shape, input, invalid, facts, feeling, state, result, flags, review, unsummarized>>

Ended == phase \in {"done", "aborted", "crashed"} /\ UNCHANGED vars

Next == Validate \/ Read \/ Diff \/ Comments \/ Explain \/ ScoreAll
        \/ Summarize \/ Overall \/ Conclude \/ Crash \/ Abort \/ Ended

Spec == Init /\ [][Next]_vars

-----------------------------------------------------------------------------
(* Properties *)

\* The model calls that say what a reference said about the candidate.
Unread(k) == Failed \in {facts[k], feeling[k]}

\* What the real-time graph makes of the answers to the items of one reference;
\* one that was not summarised is left to a human.
Expected(k) ==
    LET i == input[k]
        felt == IF feeling[k] = None THEN [sentiment |-> "neutral", redFlags |-> 0]
                ELSE feeling[k]
        whole ==
          IF ~Processable(i) THEN Unprocessed(k)
          ELSE IF i.type = "open_text"
          THEN Result(k, facts[k], DiffFacts(Claimed[k[1]], facts[k]),
                      felt.sentiment, felt.redFlags)
          ELSE Result(k, NoFacts, FormDiscrepancies(i.form), felt.sentiment,
                      FormRedFlags(i.form) + felt.redFlags)
    IN [whole EXCEPT !.review = whole.review \/ k \in unsummarized]

\* A reference gets from the batch exactly what the real-time graph would have
\* made of the same answers if its own items succeeded: the two validate alike,
\* and the phases neither mix up references nor let a failed item of one of them
\* show in another.  The verdict on a candidate is the one the graph gives for
\* such results, whether or not the candidate's own summary came.
MatchesRealTime ==
    phase = "done" =>
        \A c \in Candidates :
          LET own == [r \in 1..shape[c] |-> IF Unread(<<c, r>>) THEN result[<<c, r>>]
                                            ELSE Expected(<<c, r>>)] IN
          /\ \A r \in 1..shape[c] : result[<<c, r>>] = own[r]
          /\ review[c] <=> OverallNeedsReview(own, CrossFlags(own))

\* An item failure the pipeline notices reaches the candidate's verdict: a
\* reference that was excluded or not summarised is flagged and so is its
\* candidate, and a cleared candidate has none.
NoticedFailuresFlagged ==
    phase = "done" =>
        \A k \in Keys :
            /\ k \in invalid \cup unsummarized => result[k].review
            /\ result[k].review => review[k[1]]
            /\ result[k].redFlags > 0 => result[k].review

\* The code of the pipeline raises only for a failed sentiment item of a free
\* text or for a candidate without references.  Its other lookups are safe: no
\* phase asks a dictionary for a reference that an earlier one passed over, and
\* no form that is not there comes as far as phase 2.
CrashHasACause ==
    phase = "crashed" => \/ \E k \in OfType("open_text") : feeling[k] = Failed
                         \/ \E c \in Candidates : shape[c] = 0

\* The technical document: per-reference failure isolation in both real-time
\* and batch, "rather than failing the whole candidate's run".
ReferenceFailureIsIsolated == phase # "crashed"

\* The other half of it: one bad reference is flagged for manual review.
FailedReadingFlagged ==
    phase = "done" => \A k \in Keys : Unread(k) => result[k].review
=============================================================================
