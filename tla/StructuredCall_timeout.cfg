CONSTANTS
    t1 = t1
    t2 = t2
    Callers <- OneCaller
    Providers <- BedrockOnly
    RetrySettings <- OnlyFour
    SdkRetries = 2
SPECIFICATION Spec
INVARIANT TimeoutsAreRetried
