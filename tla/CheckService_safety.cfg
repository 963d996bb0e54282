CONSTANTS
    c1 = c1
    c2 = c2
    p1 = p1
    p2 = p2
    Checks <- TwoChecks
    Pollers <- OnePoller
    MaxThreads = 2
    MaxCrashes = 1
    Free = Free
    None = None
SPECIFICATION Spec
SYMMETRY Symmetry
INVARIANT TypeOK
INVARIANT RecordTellsTask
INVARIANT RecordConsistent
INVARIANT AnswersNeverMix
INVARIANT AnswersNotStale
INVARIANT NotFoundOnlyIfLost
INVARIANT CallbackIsFinal
PROPERTY ImplementsLifecycle
\* A server whose clients have all gone quiet stops stepping.
CHECK_DEADLOCK FALSE
