-------------------------- MODULE MCCandidateGraph --------------------------
(* Instances of CandidateGraph for TLC: the weights and thresholds of       *)
(* config.py, and inputs and model answers chosen to fall on both sides of  *)
(* every comparison.                                                        *)
EXTENDS CandidateGraph

CONSTANTS Acme, Globex, SeniorEngineer, LeadEngineer, Engineer

SeniorTitles == {SeniorEngineer, LeadEngineer}

DefaultSeverityPenalty == [minor |-> 5, moderate |-> 15, major |-> 35]

DefaultSentimentPenalty == [negative |-> 20, mixed |-> 10, neutral |-> 0, positive |-> 0]

TheClaim == [company |-> Acme, job_title |-> SeniorEngineer, start_date |-> 24,
             end_date |-> 48, performance_rating |-> None]

Facts(company, title, start, end, rating) ==
    [company |-> company, job_title |-> title, start_date |-> start, end_date |-> end,
     performance_rating |-> rating]

\* Nothing stated; all confirmed within the tolerance; another senior title
\* and a date that does not parse; a date six months early; another company, a
\* lower title and a date seven months late.
SomeFacts == {NoFacts,
              Facts(Acme, SeniorEngineer, 25, 48, "strong"),
              Facts(None, LeadEngineer, 24, Unparsable, None),
              Facts(None, None, 18, None, "weak"),
              Facts(Globex, Engineer, 31, None, None)}

SomeFeelings == {[sentiment |-> "neutral", redFlags |-> 0],
                 [sentiment |-> "negative", redFlags |-> 0],
                 [sentiment |-> "mixed", redFlags |-> 1]}

Form(title, dates, rehire, comments) ==
    [confirmed_title |-> title, confirmed_dates |-> dates, confirmed_company |-> "yes",
     would_rehire |-> rehire, performance_concerns |-> "no",
     additional_comments |-> comments]

Open(length, stripped) == OpenText(Text(length, stripped))

\* Both bounds of raw_input from both sides, no text, and no form.
SomeInputs == {Open(20000, 10), Open(12, 9), Open(20001, 10), OpenText(NoText), YesNo(None),
               YesNo(Form("yes", "yes", "yes", FALSE)),
               YesNo(Form("unsure", "unsure", "yes", TRUE)),
               YesNo(Form("no", "yes", "unsure", FALSE))}

OpenInputs == {Open(20000, 10)}

\* With a limit of one the second reference, and the second call, queue.
OneOrTwo == {1, 2}

DistinctNames == [r \in Refs |-> r]

SameNames == [r \in Refs |-> 1]
=============================================================================
