CONSTANTS
    None = None
    MinRawInputChars = 10
    MaxRawInputChars = 20000
    Unparsable = Unparsable
    Failed = Failed
    ann = ann
    bob = bob
    Acme = Acme
    Globex = Globex
    SeniorEngineer = SeniorEngineer
    Engineer = Engineer
    Senior <- SeniorTitles
    SeverityPenalty <- DefaultSeverityPenalty
    SentimentPenalty <- DefaultSentimentPenalty
    RedFlagPenalty = 10
    ReviewThreshold = 70
    OverallReviewThreshold = 70
    MinorMonthTolerance = 1
    ModerateMonthTolerance = 6
    Candidates <- TwoCandidates
    Shapes <- OneShape
    Claimed <- TheClaims
    Inputs <- SomeInputs
    FactsRead <- SomeFacts
    Feelings <- SomeFeelings
SPECIFICATION Spec
INVARIANT FailedReadingFlagged
