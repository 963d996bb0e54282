------------------------------ MODULE Scoring ------------------------------
(***************************************************************************)
(* The pure Python nodes shared by the real-time graphs and the batch      *)
(* pipeline: comparing what a reference said with what the candidate       *)
(* claimed, scoring one reference, comparing references with each other    *)
(* and scoring the candidate (nodes/reference_nodes.py and                 *)
(* nodes/candidate_nodes.py, with the weights of config.py).               *)
(*                                                                         *)
(* A name, company or title stands for its class under .strip().lower();   *)
(* None is a missing (falsy) value.  A month is a number of months or      *)
(* Unparsable.  Red flags are counted: only their number matters.          *)
(***************************************************************************)
EXTENDS Validation, FiniteSets, Sequences

CONSTANTS Unparsable,
          Senior,             \* titles holding one of diff_facts' seniority words
          SeverityPenalty,    \* config.SEVERITY_PENALTY
          SentimentPenalty,   \* config.SENTIMENT_PENALTY
          RedFlagPenalty, ReviewThreshold, OverallReviewThreshold,
          MinorMonthTolerance, ModerateMonthTolerance

Severities == {"minor", "moderate", "major"}

Sentiments == {"positive", "neutral", "negative", "mixed"}

ASSUME WeightsAssumption ==
    /\ SeverityPenalty \in [Severities -> Nat]
    /\ SentimentPenalty \in [Sentiments -> Nat]
    /\ {RedFlagPenalty, ReviewThreshold, OverallReviewThreshold,
        MinorMonthTolerance, ModerateMonthTolerance} \subseteq Nat

ASSUME UnparsableAssumption == Unparsable \notin Int /\ None \notin Int

\* A rating that is stated is one of these.
ASSUME RatingAssumption == None \notin {"strong", "average", "weak", "unclear"}

Discrepancy(field, severity) == [field |-> field, severity |-> severity]

Fields == {"company", "job_title", "start_date", "end_date", "employment_dates",
           "performance_rating"}

Discrepancies == SUBSET [field : Fields, severity : Severities]

NoFacts == [company |-> None, job_title |-> None, start_date |-> None,
            end_date |-> None, performance_rating |-> None]

-----------------------------------------------------------------------------
(* One reference against the claim *)

Abs(n) == IF n < 0 THEN -n ELSE n

\* Faulty variant of MonthDiff: without abs().
MonthDiffSigned(a, b) == IF Unparsable \in {a, b} THEN None ELSE a - b

\* None when either date does not parse as YYYY-MM.
MonthDiff(a, b) == IF Unparsable \in {a, b} THEN None ELSE Abs(a - b)

\* The discrepancies of one date field that both sides state.
DateDiscrepancies(field, claimed, stated) ==
    LET diff == MonthDiff(claimed, stated) IN
    IF diff = None \/ diff <= MinorMonthTolerance THEN {}
    ELSE {Discrepancy(field, IF diff <= ModerateMonthTolerance THEN "moderate" ELSE "major")}

DiffFacts(claimed, facts) ==
    LET company ==
            IF facts.company \in {None, claimed.company} THEN {}
            ELSE {Discrepancy("company", "major")}
        title ==
            IF facts.job_title \in {None, claimed.job_title} THEN {}
            ELSE {Discrepancy("job_title",
                              IF claimed.job_title \in Senior /\ facts.job_title \notin Senior
                              THEN "major" ELSE "moderate")}
        start ==
            IF facts.start_date = None THEN {}
            ELSE DateDiscrepancies("start_date", claimed.start_date, facts.start_date)
        end ==
            IF facts.end_date = None THEN {}
            ELSE IF claimed.end_date = None THEN {Discrepancy("end_date", "major")}
            ELSE DateDiscrepancies("end_date", claimed.end_date, facts.end_date)
    IN company \cup title \cup start \cup end

\* REF2: the answers of the form are the facts.
AnswerDiscrepancies(field, answer) ==
    CASE answer = "no"     -> {Discrepancy(field, "major")}
      [] answer = "unsure" -> {Discrepancy(field, "minor")}
      [] OTHER             -> {}

FormDiscrepancies(form) ==
    AnswerDiscrepancies("job_title", form.confirmed_title)
    \cup AnswerDiscrepancies("employment_dates", form.confirmed_dates)
    \cup AnswerDiscrepancies("company", form.confirmed_company)

FormRedFlags(form) ==
    (IF form.performance_concerns \in {"yes", "unsure"} THEN 1 ELSE 0)
    + (IF form.would_rehire \in {"no", "unsure"} THEN 1 ELSE 0)

-----------------------------------------------------------------------------
(* score_confidence *)

Clamp(score, top) == IF score < 0 THEN 0 ELSE IF score > top THEN top ELSE score

OfSeverity(discrepancies, severity) ==
    Cardinality({d \in discrepancies : d.severity = severity})

Penalties(discrepancies) ==
    SeverityPenalty["minor"] * OfSeverity(discrepancies, "minor")
    + SeverityPenalty["moderate"] * OfSeverity(discrepancies, "moderate")
    + SeverityPenalty["major"] * OfSeverity(discrepancies, "major")

\* Faulty variant of Score: not clamped to 0..100.
ScoreUnclamped(discrepancies, redFlags, sentiment) ==
    100 - Penalties(discrepancies) - RedFlagPenalty * redFlags - SentimentPenalty[sentiment]

Score(discrepancies, redFlags, sentiment) ==
    Clamp(100 - Penalties(discrepancies) - RedFlagPenalty * redFlags
              - SentimentPenalty[sentiment], 100)

\* Faulty variant of NeedsReview: red flags do not count.
NeedsReviewUnflagged(discrepancies, redFlags, sentiment) ==
    \/ Score(discrepancies, redFlags, sentiment) < ReviewThreshold
    \/ \E d \in discrepancies : d.severity = "major"

NeedsReview(discrepancies, redFlags, sentiment) ==
    \/ Score(discrepancies, redFlags, sentiment) < ReviewThreshold
    \/ \E d \in discrepancies : d.severity = "major"
    \/ redFlags > 0

-----------------------------------------------------------------------------
(* The candidate: results is the sequence reference_results. *)

\* The distinct values the references state for a field.
Stated(results, field) ==
    {results[i].facts[field] : i \in DOMAIN results} \ {None}

\* Faulty variant of RatingsByName: one entry for all references.
RatingsByLast(results) ==
    {results[i].facts.performance_rating :
        i \in {j \in DOMAIN results :
                 /\ results[j].facts.performance_rating # None
                 /\ \A k \in DOMAIN results :
                       k > j => results[k].facts.performance_rating = None}}

\* performance_by_ref is a dict keyed by reference_name: a later reference of
\* the same name that states a rating replaces an earlier one.
RatingsByName(results) ==
    {results[i].facts.performance_rating :
        i \in {j \in DOMAIN results :
                 /\ results[j].facts.performance_rating # None
                 /\ \A k \in DOMAIN results :
                       k > j /\ results[k].name = results[j].name
                       => results[k].facts.performance_rating = None}}

CrossFlags(results) ==
    (IF Cardinality(Stated(results, "job_title")) > 1
     THEN {Discrepancy("job_title", "moderate")} ELSE {})
    \cup (IF Cardinality(Stated(results, "company")) > 1
          THEN {Discrepancy("company", "major")} ELSE {})
    \cup (IF {"strong", "weak"} \subseteq RatingsByName(results)
          THEN {Discrepancy("performance_rating", "major")} ELSE {})

TotalScore(results) ==
    LET total[i \in 0..Len(results)] ==
            IF i = 0 THEN 0 ELSE total[i - 1] + results[i].score
    IN total[Len(results)]

\* overall_confidence times the number of references, so that the average
\* stays an integer.
OverallScore(results, flags) ==
    Clamp(TotalScore(results) - Len(results) * Penalties(flags), 100 * Len(results))

OverallNeedsReview(results, flags) ==
    \/ OverallScore(results, flags) < OverallReviewThreshold * Len(results)
    \/ \E i \in DOMAIN results : results[i].review
    \/ flags # {}

-----------------------------------------------------------------------------
(* What a reference contributes *)

Result(name, facts, discrepancies, sentiment, redFlags) ==
    [name |-> name, facts |-> facts, discrepancies |-> discrepancies,
     sentiment |-> sentiment, redFlags |-> redFlags,
     score |-> Score(discrepancies, redFlags, sentiment),
     review |-> NeedsReview(discrepancies, redFlags, sentiment)]

\* Faulty variant of Unprocessed: the placeholder is not marked for review.
UnprocessedCleared(name) ==
    [name |-> name, facts |-> NoFacts, discrepancies |-> {}, sentiment |-> "unclear",
     redFlags |-> 1, score |-> 0, review |-> FALSE]

\* The placeholder for a reference that could not be processed (run_reference)
\* or did not pass validation (the batch pipeline).
Unprocessed(name) ==
    [name |-> name, facts |-> NoFacts, discrepancies |-> {}, sentiment |-> "unclear",
     redFlags |-> 1, score |-> 0, review |-> TRUE]
=============================================================================
