CONSTANTS
    None = None
    MinRawInputChars = 10
    MaxRawInputChars = 20000
    Unparsable = Unparsable
    Acme = Acme
    Globex = Globex
    SeniorEngineer = SeniorEngineer
    LeadEngineer = LeadEngineer
    Engineer = Engineer
    Senior <- SeniorTitles
    SeverityPenalty <- DefaultSeverityPenalty
    SentimentPenalty <- DefaultSentimentPenalty
    RedFlagPenalty = 10
    ReviewThreshold = 70
    OverallReviewThreshold = 70
    MinorMonthTolerance = 1
    ModerateMonthTolerance = 6
    References = 2
    ConcurrencyLimits <- OneOrTwo
    Claimed <- TheClaim
    NameOf <- SameNames
    Inputs <- OpenInputs
    FactsRead <- SomeFacts
    Feelings <- SomeFeelings
SPECIFICATION Spec
INVARIANT ConflictingRatingsFlagged
