CONSTANTS
    c1 = c1
    c2 = c2
    p1 = p1
    p2 = p2
    Checks <- OneCheck
    Pollers <- TwoPollers
    MaxThreads = 2
    MaxCrashes = 1
    Free = Free
    None = None
SPECIFICATION FairSpec
PROPERTY EveryCheckSettles
PROPERTY ImplementsFairLifecycle
PROPERTY EveryPollAnswered
\* A server whose clients have all gone quiet stops stepping.
CHECK_DEADLOCK FALSE
