CONSTANTS
    t1 = t1
    t2 = t2
    Callers <- TwoCallers
    Providers <- AllThree
    RetrySettings <- ZeroAndThree
    SdkRetries = 1
SPECIFICATION FairSpec
INVARIANT TypeOK
INVARIANT RequestsBounded
INVARIANT EndsTruthfully
PROPERTY CallEnds
