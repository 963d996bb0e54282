---------------------------- MODULE ScoringProofs ----------------------------
(***************************************************************************)
(* What the scoring nodes return, for any weights, thresholds and months:  *)
(* the facts the proofs about the graphs build on.                         *)
(***************************************************************************)
EXTENDS Scoring, FiniteSetTheorems, TLAPS

\* There are finitely many fields a discrepancy can be about.
LEMMA FieldsFinite == IsFiniteSet(Fields)
<1>1. IsFiniteSet({} \cup {"company"})
  BY FS_EmptySet, FS_AddElement
<1>2. IsFiniteSet(({} \cup {"company"}) \cup {"job_title"})
  BY <1>1, FS_AddElement
<1>3. IsFiniteSet((({} \cup {"company"}) \cup {"job_title"}) \cup {"start_date"})
  BY <1>2, FS_AddElement
<1>4. IsFiniteSet(((({} \cup {"company"}) \cup {"job_title"}) \cup {"start_date"})
                  \cup {"end_date"})
  BY <1>3, FS_AddElement
<1>5. IsFiniteSet((((({} \cup {"company"}) \cup {"job_title"}) \cup {"start_date"})
                  \cup {"end_date"}) \cup {"employment_dates"})
  BY <1>4, FS_AddElement
<1>6. IsFiniteSet(((((({} \cup {"company"}) \cup {"job_title"}) \cup {"start_date"})
                  \cup {"end_date"}) \cup {"employment_dates"}) \cup {"performance_rating"})
  BY <1>5, FS_AddElement
<1>7. Fields = ((((({} \cup {"company"}) \cup {"job_title"}) \cup {"start_date"})
                  \cup {"end_date"}) \cup {"employment_dates"}) \cup {"performance_rating"}
  BY DEF Fields
<1> QED
  BY <1>6, <1>7

\* The discrepancies of one severity can be counted.
LEMMA OfSeverityFinite ==
  ASSUME NEW discrepancies \in Discrepancies, NEW severity
  PROVE  IsFiniteSet({d \in discrepancies : d.severity = severity})
<1> DEFINE S == {d \in discrepancies : d.severity = severity}
           F == {d.field : d \in S}
           f == [d \in S |-> d.field]
<1>1. F \in SUBSET Fields
  BY DEF Discrepancies
<1>2. IsFiniteSet(F)
  BY <1>1, FieldsFinite, FS_Subset
<1>3. f \in Injection(S, F)
  <2>1. f \in [S -> F]
    OBVIOUS
  <2>2. ASSUME NEW d \in S, NEW e \in S, f[d] = f[e]
        PROVE  d = e
    <3>1. /\ d \in [field : Fields, severity : Severities]
          /\ e \in [field : Fields, severity : Severities]
          /\ d.field = e.field /\ d.severity = e.severity
      BY <2>2 DEF Discrepancies
    <3> QED
      BY <3>1
  <2> QED
    BY <2>1, <2>2 DEF Injection, IsInjective
<1> QED
  BY <1>2, <1>3, FS_Injection

LEMMA OfSeverityNat ==
  ASSUME NEW discrepancies \in Discrepancies, NEW severity
  PROVE  OfSeverity(discrepancies, severity) \in Nat
  BY OfSeverityFinite, FS_CardinalityType DEF OfSeverity

LEMMA PenaltiesNat ==
  ASSUME NEW discrepancies \in Discrepancies
  PROVE  Penalties(discrepancies) \in Nat
<1>1. /\ SeverityPenalty["minor"] \in Nat /\ SeverityPenalty["moderate"] \in Nat
      /\ SeverityPenalty["major"] \in Nat
  BY WeightsAssumption DEF Severities
<1>2. ASSUME NEW a \in Nat, NEW b \in Nat PROVE a * b \in Nat
  OBVIOUS
<1>3. /\ SeverityPenalty["minor"] * OfSeverity(discrepancies, "minor") \in Nat
      /\ SeverityPenalty["moderate"] * OfSeverity(discrepancies, "moderate") \in Nat
      /\ SeverityPenalty["major"] * OfSeverity(discrepancies, "major") \in Nat
  BY <1>1, <1>2, OfSeverityNat
<1> QED
  BY <1>3 DEF Penalties

-----------------------------------------------------------------------------
\* However many penalties add up, the score of a reference is a percentage.
THEOREM ScoreIsPercentage ==
  ASSUME NEW discrepancies \in Discrepancies, NEW redFlags \in Nat,
         NEW sentiment \in Sentiments
  PROVE  Score(discrepancies, redFlags, sentiment) \in 0..100
<1> DEFINE raw == 100 - Penalties(discrepancies) - RedFlagPenalty * redFlags
                      - SentimentPenalty[sentiment]
<1>1. RedFlagPenalty \in Nat /\ SentimentPenalty[sentiment] \in Nat
  BY WeightsAssumption
<1>2. RedFlagPenalty * redFlags \in Nat
  BY <1>1
<1>3. raw \in Int /\ raw <= 100
  BY <1>1, <1>2, PenaltiesNat
<1> HIDE DEF raw
<1>4. Clamp(raw, 100) \in 0..100
  BY <1>3 DEF Clamp
<1> QED
  BY <1>4 DEF Score, raw

\* A reference that is not left to a human reached the threshold, with no major
\* discrepancy and no red flag.
THEOREM ClearedIsClean ==
  ASSUME NEW discrepancies \in Discrepancies, NEW redFlags \in Nat,
         NEW sentiment \in Sentiments,
         ~NeedsReview(discrepancies, redFlags, sentiment)
  PROVE  /\ Score(discrepancies, redFlags, sentiment) >= ReviewThreshold
         /\ redFlags = 0
         /\ \A d \in discrepancies : d.severity # "major"
<1>1. Score(discrepancies, redFlags, sentiment) \in Int /\ ReviewThreshold \in Int
  BY ScoreIsPercentage, WeightsAssumption
<1> QED
  BY <1>1 DEF NeedsReview

\* There are at least as many discrepancies of a severity in a larger set.
LEMMA OfSeverityGrows ==
  ASSUME NEW fewer \in Discrepancies, NEW more \in Discrepancies, fewer \subseteq more,
         NEW severity
  PROVE  OfSeverity(fewer, severity) <= OfSeverity(more, severity)
<1> DEFINE S == {d \in fewer : d.severity = severity}
           T == {d \in more : d.severity = severity}
<1>1. S \subseteq T
  OBVIOUS
<1>2. IsFiniteSet(T)
  BY OfSeverityFinite
<1>3. Cardinality(S) <= Cardinality(T)
  BY <1>1, <1>2, FS_Subset
<1> QED
  BY <1>3 DEF OfSeverity

LEMMA ProductGrows ==
  ASSUME NEW a \in Nat, NEW m \in Nat, NEW n \in Nat, m <= n
  PROVE  a * m <= a * n /\ a * m \in Nat /\ a * n \in Nat
<1>1. a * n = a * m + a * (n - m)
  OBVIOUS
<1>2. n - m \in Nat
  OBVIOUS
<1>3. a * m \in Nat /\ a * n \in Nat /\ a * (n - m) \in Nat
  BY <1>2
<1> QED
  BY <1>1, <1>3

LEMMA PenaltiesGrow ==
  ASSUME NEW fewer \in Discrepancies, NEW more \in Discrepancies, fewer \subseteq more
  PROVE  Penalties(fewer) <= Penalties(more)
<1> DEFINE f(s) == SeverityPenalty[s] * OfSeverity(fewer, s)
           m(s) == SeverityPenalty[s] * OfSeverity(more, s)
<1>1. ASSUME NEW s \in Severities
      PROVE  f(s) \in Nat /\ m(s) \in Nat /\ f(s) <= m(s)
  <2>1. SeverityPenalty[s] \in Nat
    BY WeightsAssumption
  <2> QED
    BY <2>1, OfSeverityNat, OfSeverityGrows, ProductGrows
<1>2. {"minor", "moderate", "major"} \subseteq Severities
  BY DEF Severities
<1>3. /\ Penalties(fewer) = f("minor") + f("moderate") + f("major")
      /\ Penalties(more) = m("minor") + m("moderate") + m("major")
  BY DEF Penalties
<1> HIDE DEF f, m
<1> QED
  BY <1>1, <1>2, <1>3

\* More discrepancies or more red flags never make a reference look better: its
\* score does not rise and a review that was due stays due.
THEOREM MoreIsWorse ==
  ASSUME NEW fewer \in Discrepancies, NEW more \in Discrepancies, fewer \subseteq more,
         NEW m \in Nat, NEW n \in Nat, m <= n, NEW sentiment \in Sentiments
  PROVE  /\ Score(more, n, sentiment) <= Score(fewer, m, sentiment)
         /\ NeedsReview(fewer, m, sentiment) => NeedsReview(more, n, sentiment)
<1> DEFINE p == Penalties(fewer)
           q == Penalties(more)
           a == RedFlagPenalty * m
           b == RedFlagPenalty * n
           t == SentimentPenalty[sentiment]
<1>1. p \in Nat /\ q \in Nat /\ p <= q
  BY PenaltiesNat, PenaltiesGrow
<1>2. RedFlagPenalty \in Nat /\ t \in Nat /\ ReviewThreshold \in Nat
  BY WeightsAssumption
<1>3. a \in Nat /\ b \in Nat /\ a <= b
  BY <1>2, ProductGrows
<1>4. /\ Score(fewer, m, sentiment) = Clamp(100 - p - a - t, 100)
      /\ Score(more, n, sentiment) = Clamp(100 - q - b - t, 100)
  BY DEF Score
<1> HIDE DEF p, q, a, b, t
<1>5. 100 - q - b - t <= 100 - p - a - t
  BY <1>1, <1>2, <1>3
<1>6. ASSUME NEW x \in Int, NEW y \in Int, x <= y
      PROVE  Clamp(x, 100) <= Clamp(y, 100)
  BY <1>6 DEF Clamp
<1>7. Score(more, n, sentiment) <= Score(fewer, m, sentiment)
  BY <1>1, <1>2, <1>3, <1>4, <1>5, <1>6
<1>8. /\ Score(more, n, sentiment) \in Int /\ Score(fewer, m, sentiment) \in Int
  BY ScoreIsPercentage
<1>9. NeedsReview(fewer, m, sentiment) => NeedsReview(more, n, sentiment)
  <2>1. CASE Score(fewer, m, sentiment) < ReviewThreshold
    BY <1>2, <1>7, <1>8, <2>1 DEF NeedsReview
  <2>2. CASE \E d \in fewer : d.severity = "major"
    BY <2>2 DEF NeedsReview
  <2>3. CASE m > 0
    BY <2>3 DEF NeedsReview
  <2> QED
    BY <2>1, <2>2, <2>3 DEF NeedsReview
<1> QED
  BY <1>7, <1>9

\* What the two comparisons with the claim may find.
LEMMA DiffTyped ==
  ASSUME NEW claimed, NEW facts
  PROVE  DiffFacts(claimed, facts) \in Discrepancies
<1>1. ASSUME NEW field \in Fields, NEW a, NEW b
      PROVE  DateDiscrepancies(field, a, b) \in Discrepancies
  <2>1. \A s \in Severities : {Discrepancy(field, s)} \in Discrepancies
    BY DEF Discrepancy, Discrepancies
  <2> QED
    BY <2>1 DEF DateDiscrepancies, Discrepancies, Severities
<1>2. \A field \in Fields : \A s \in Severities : {Discrepancy(field, s)} \in Discrepancies
  BY DEF Discrepancy, Discrepancies
<1>3. {} \in Discrepancies /\ \A A, B \in Discrepancies : A \cup B \in Discrepancies
  BY DEF Discrepancies
<1>4. {"company", "job_title", "start_date", "end_date"} \subseteq Fields
      /\ {"moderate", "major"} \subseteq Severities
  BY DEF Fields, Severities
<1> DEFINE company ==
             IF facts.company \in {None, claimed.company} THEN {}
             ELSE {Discrepancy("company", "major")}
           title ==
             IF facts.job_title \in {None, claimed.job_title} THEN {}
             ELSE {Discrepancy("job_title",
                               IF claimed.job_title \in Senior /\ facts.job_title \notin Senior
                               THEN "major" ELSE "moderate")}
           start ==
             IF facts.start_date = None THEN {}
             ELSE DateDiscrepancies("start_date", claimed.start_date, facts.start_date)
           end ==
             IF facts.end_date = None THEN {}
             ELSE IF claimed.end_date = None THEN {Discrepancy("end_date", "major")}
             ELSE DateDiscrepancies("end_date", claimed.end_date, facts.end_date)
<1>5. company \in Discrepancies
  BY <1>2, <1>3, <1>4
<1>6. title \in Discrepancies
  <2> DEFINE severity == IF claimed.job_title \in Senior /\ facts.job_title \notin Senior
                         THEN "major" ELSE "moderate"
  <2>1. severity \in Severities
    BY <1>4
  <2> HIDE DEF severity
  <2>2. {Discrepancy("job_title", severity)} \in Discrepancies
    BY <1>2, <1>4, <2>1
  <2> USE DEF severity
  <2> QED
    BY <1>3, <2>2
<1>7. start \in Discrepancies
  BY <1>1, <1>3, <1>4
<1>8. end \in Discrepancies
  <2>1. DateDiscrepancies("end_date", claimed.end_date, facts.end_date) \in Discrepancies
    BY <1>1, <1>4
  <2>2. {Discrepancy("end_date", "major")} \in Discrepancies
    BY <1>2, <1>4
  <2> QED
    BY <1>3, <2>1, <2>2
<1>9. DiffFacts(claimed, facts) = ((company \cup title) \cup start) \cup end
  BY DEF DiffFacts
<1> HIDE DEF company, title, start, end
<1>10. company \cup title \in Discrepancies
  BY <1>3, <1>5, <1>6
<1>11. (company \cup title) \cup start \in Discrepancies
  BY <1>3, <1>7, <1>10
<1> QED
  BY <1>3, <1>8, <1>9, <1>11

-----------------------------------------------------------------------------
(* Dates *)

\* The severities the dates of one field give rise to.
DateSeverity(claim, said) ==
    LET diff == MonthDiff(claim, said) IN
    IF said = None THEN {}
    ELSE IF claim = None THEN {"major"}
    ELSE IF diff = None \/ diff <= MinorMonthTolerance THEN {}
    ELSE IF diff <= ModerateMonthTolerance THEN {"moderate"} ELSE {"major"}

\* Two months are at most n apart when one lies within n of the other.
LEMMA DistanceIsWindow ==
  ASSUME NEW a \in Int, NEW b \in Int, NEW n \in Nat
  PROVE  Abs(a - b) <= n <=> b \in (a - n)..(a + n)
  BY DEF Abs

\* The distance decides, on either side of the claim.
LEMMA SeverityByDistance ==
  ASSUME NEW claim \in Int \cup {None, Unparsable}, NEW said \in Int \cup {None, Unparsable}
  PROVE  DateSeverity(claim, said) =
           CASE said = None -> {}
             [] said # None /\ claim = None -> {"major"}
             [] None \notin {said, claim} /\ Unparsable \in {said, claim} -> {}
             [] {said, claim} \subseteq Int ->
                  IF said \in (claim - MinorMonthTolerance)..(claim + MinorMonthTolerance)
                  THEN {}
                  ELSE IF said \in (claim - ModerateMonthTolerance)
                                    ..(claim + ModerateMonthTolerance)
                  THEN {"moderate"} ELSE {"major"}
<1>1. MinorMonthTolerance \in Nat /\ ModerateMonthTolerance \in Nat
  BY WeightsAssumption
<1>2. Unparsable \notin Int /\ None \notin Int
  BY UnparsableAssumption
<1>3. CASE said = None
  BY <1>2, <1>3 DEF DateSeverity
<1>4. CASE said # None /\ claim = None
  BY <1>2, <1>4 DEF DateSeverity
<1>5. CASE None \notin {said, claim} /\ Unparsable \in {said, claim}
  <2>1. MonthDiff(claim, said) = None
    BY <1>5 DEF MonthDiff
  <2> QED
    BY <1>2, <1>5, <2>1 DEF DateSeverity
<1>6. CASE {said, claim} \subseteq Int
  <2>1. said # None /\ claim # None /\ Unparsable \notin {claim, said}
    BY <1>2, <1>6
  <2>2. MonthDiff(claim, said) = Abs(claim - said) /\ Abs(claim - said) \in Int
    BY <1>6, <2>1 DEF MonthDiff, Abs
  <2>3. /\ Abs(claim - said) <= MinorMonthTolerance
              <=> said \in (claim - MinorMonthTolerance)..(claim + MinorMonthTolerance)
        /\ Abs(claim - said) <= ModerateMonthTolerance
              <=> said \in (claim - ModerateMonthTolerance)..(claim + ModerateMonthTolerance)
    BY <1>1, <1>6, DistanceIsWindow
  <2>4. Abs(claim - said) # None
    BY <1>2, <2>2
  <2> HIDE DEF Abs
  <2> QED
    BY <1>6, <2>1, <2>2, <2>3, <2>4 DEF DateSeverity
<1> QED
  BY <1>3, <1>4, <1>5, <1>6

\* diff_facts judges each of the two dates for itself.
LEMMA DatesOfDiff ==
  ASSUME NEW claimed, NEW facts, claimed.start_date # None,
         NEW field \in {"start_date", "end_date"}
  PROVE  {d.severity : d \in {e \in DiffFacts(claimed, facts) : e.field = field}}
            = DateSeverity(claimed[field], facts[field])
<1> DEFINE company == IF facts.company \in {None, claimed.company} THEN {}
                      ELSE {Discrepancy("company", "major")}
           title == IF facts.job_title \in {None, claimed.job_title} THEN {}
                    ELSE {Discrepancy("job_title",
                            IF claimed.job_title \in Senior /\ facts.job_title \notin Senior
                            THEN "major" ELSE "moderate")}
           start == IF facts.start_date = None THEN {}
                    ELSE DateDiscrepancies("start_date", claimed.start_date, facts.start_date)
           end == IF facts.end_date = None THEN {}
                  ELSE IF claimed.end_date = None THEN {Discrepancy("end_date", "major")}
                  ELSE DateDiscrepancies("end_date", claimed.end_date, facts.end_date)
<1>1. DiffFacts(claimed, facts) = company \cup title \cup start \cup end
  BY DEF DiffFacts
<1>2. /\ \A d \in company : d.field = "company"
      /\ \A d \in title : d.field = "job_title"
  BY DEF Discrepancy
<1>3. start = {Discrepancy("start_date", v) :
                   v \in DateSeverity(claimed.start_date, facts.start_date)}
  BY DEF DateDiscrepancies, DateSeverity
<1>4. end = {Discrepancy("end_date", v) :
                   v \in DateSeverity(claimed.end_date, facts.end_date)}
  BY DEF DateDiscrepancies, DateSeverity
<1> HIDE DEF company, title, start, end
<1>5. CASE field = "start_date"
  <2>1. {e \in DiffFacts(claimed, facts) : e.field = field} = start
    BY <1>1, <1>2, <1>3, <1>4, <1>5 DEF Discrepancy
  <2>2. claimed[field] = claimed.start_date /\ facts[field] = facts.start_date
    BY <1>5
  <2>3. {d.severity : d \in start} = DateSeverity(claimed.start_date, facts.start_date)
    <3>1. \A v : Discrepancy("start_date", v).severity = v
      BY DEF Discrepancy
    <3> QED
      BY <1>3, <3>1, Zenon
  <2> QED
    BY <2>1, <2>2, <2>3
<1>6. CASE field = "end_date"
  <2>1. {e \in DiffFacts(claimed, facts) : e.field = field} = end
    BY <1>1, <1>2, <1>3, <1>4, <1>6 DEF Discrepancy
  <2>2. claimed[field] = claimed.end_date /\ facts[field] = facts.end_date
    BY <1>6
  <2>3. {d.severity : d \in end} = DateSeverity(claimed.end_date, facts.end_date)
    <3>1. \A v : Discrepancy("end_date", v).severity = v
      BY DEF Discrepancy
    <3> QED
      BY <1>4, <3>1, Zenon
  <2> QED
    BY <2>1, <2>2, <2>3
<1> QED
  BY <1>5, <1>6

-----------------------------------------------------------------------------
(* Forms and cross-reference flags *)

LEMMA FormTyped ==
  ASSUME NEW form
  PROVE  FormDiscrepancies(form) \in Discrepancies /\ FormRedFlags(form) \in Nat
<1>1. ASSUME NEW field \in Fields, NEW answer
      PROVE  AnswerDiscrepancies(field, answer) \in Discrepancies
  <2>1. \A s \in Severities : {Discrepancy(field, s)} \in Discrepancies
    BY DEF Discrepancy, Discrepancies
  <2>2. {} \in Discrepancies
    BY DEF Discrepancies
  <2>3. CASE answer = "no"
    BY <2>1, <2>3 DEF AnswerDiscrepancies, Severities
  <2>4. CASE answer = "unsure"
    BY <2>1, <2>4 DEF AnswerDiscrepancies, Severities
  <2>5. CASE answer # "no" /\ answer # "unsure"
    BY <2>2, <2>5 DEF AnswerDiscrepancies
  <2> QED
    BY <2>3, <2>4, <2>5
<1>2. \A A, B \in Discrepancies : A \cup B \in Discrepancies
  BY DEF Discrepancies
<1>3. {"job_title", "employment_dates", "company"} \subseteq Fields
  BY DEF Fields
<1>4. FormDiscrepancies(form) \in Discrepancies
  BY <1>1, <1>2, <1>3 DEF FormDiscrepancies
<1>5. FormRedFlags(form) \in Nat
  BY DEF FormRedFlags
<1> QED
  BY <1>4, <1>5

-----------------------------------------------------------------------------
\* What the references can disagree about.
LEMMA CrossTyped ==
  ASSUME NEW results
  PROVE  CrossFlags(results) \in Discrepancies
  BY DEF CrossFlags, Discrepancy, Discrepancies, Fields, Severities

\* If no disagreement is flagged, no two references state different titles or
\* different companies.
THEOREM UnflaggedAgree ==
  ASSUME NEW n \in Nat, NEW results, DOMAIN results = 1..n, CrossFlags(results) = {},
         NEW i \in 1..n, NEW j \in 1..n, NEW field \in {"job_title", "company"}
  PROVE  \/ results[i].facts[field] = results[j].facts[field]
         \/ None \in {results[i].facts[field], results[j].facts[field]}
<1> DEFINE T == {results[k].facts[field] : k \in DOMAIN results}
           f == [k \in 1..n |-> results[k].facts[field]]
<1>1. f \in Surjection(1..n, T)
  BY DEF Surjection
<1>2. IsFiniteSet(1..n)
  BY FS_Interval
<1>3. IsFiniteSet(T)
  BY <1>1, <1>2, FS_Surjection
<1>4. IsFiniteSet(Stated(results, field))
  BY <1>3, FS_Difference DEF Stated
<1>5. Cardinality(Stated(results, field)) \in Nat
  BY <1>4, FS_CardinalityType
<1>6. ~(Cardinality(Stated(results, field)) > 1)
  BY DEF CrossFlags
<1>7. Cardinality(Stated(results, field)) \in {0, 1}
  BY <1>5, <1>6
<1>8. \A x, y \in Stated(results, field) : x = y
  <2>1. CASE Cardinality(Stated(results, field)) = 0
    BY <1>4, <2>1, FS_EmptySet
  <2>2. CASE Cardinality(Stated(results, field)) = 1
    BY <1>4, <2>2, FS_Singleton
  <2> QED
    BY <1>7, <2>1, <2>2
<1> QED
  BY <1>8 DEF Stated

\* A candidate that is not left to a human has no reference that is, and no
\* disagreement among them.
THEOREM ReviewSpreads ==
  ASSUME NEW results, NEW flags, ~OverallNeedsReview(results, flags)
  PROVE  flags = {} /\ \A i \in DOMAIN results : ~results[i].review
  BY DEF OverallNeedsReview
=============================================================================
