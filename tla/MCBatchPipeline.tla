-------------------------- MODULE MCBatchPipeline --------------------------
(* Instances of BatchPipeline for TLC, with the weights of config.py.      *)
EXTENDS BatchPipeline

CONSTANTS ann, bob, Acme, Globex, SeniorEngineer, Engineer

SeniorTitles == {SeniorEngineer}

DefaultSeverityPenalty == [minor |-> 5, moderate |-> 15, major |-> 35]

DefaultSentimentPenalty == [negative |-> 20, mixed |-> 10, neutral |-> 0, positive |-> 0]

TwoCandidates == {ann, bob}

\* Ann has two references, which may contradict each other; Bob has one.
TwoAndOne == [c \in TwoCandidates |-> IF c = ann THEN 2 ELSE 1]

\* Here Bob has none at all.
TwoAndNone == [c \in TwoCandidates |-> IF c = ann THEN 2 ELSE 0]

OneShape == {TwoAndOne}

BothShapes == {TwoAndOne, TwoAndNone}

\* Ann's claim ends; Bob is still employed.
TheClaims ==
    [c \in TwoCandidates |->
        [company |-> Acme, job_title |-> SeniorEngineer, start_date |-> 24,
         end_date |-> IF c = ann THEN 48 ELSE None, performance_rating |-> None]]

Facts(company, title, start, end, rating) ==
    [company |-> company, job_title |-> title, start_date |-> start, end_date |-> end,
     performance_rating |-> rating]

SomeFacts == {Facts(Acme, SeniorEngineer, 25, 48, "strong"),
              Facts(Globex, Engineer, 31, None, "weak")}

SomeFeelings == {[sentiment |-> "neutral", redFlags |-> 0],
                 [sentiment |-> "negative", redFlags |-> 1]}

Form(title, dates, rehire, comments) ==
    [confirmed_title |-> title, confirmed_dates |-> dates, confirmed_company |-> "yes",
     would_rehire |-> rehire, performance_concerns |-> "no",
     additional_comments |-> comments]

\* Both bounds of raw_input from both sides; no form; forms with and without
\* comments.
SomeInputs == {OpenText(Text(20000, 10)), OpenText(Text(12, 9)), OpenText(Text(20001, 10)),
               YesNo(None),
               YesNo(Form("unsure", "yes", "no", TRUE)),
               YesNo(Form("yes", "no", "unsure", FALSE))}
=============================================================================
