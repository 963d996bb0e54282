CONSTANTS
    c1 = c1
    c2 = c2
    p1 = p1
    p2 = p2
    Checks <- OneCheck
    Pollers <- OnePoller
    MaxThreads = 2
    MaxCrashes = 0
    Free = Free
    None = None
SPECIFICATION Spec
INVARIANT CompletedAnswerHasResult
\* A server whose clients have all gone quiet stops stepping.
CHECK_DEADLOCK FALSE
