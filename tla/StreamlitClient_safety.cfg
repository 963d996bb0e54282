CONSTANTS
    None = None
    Answered = Answered
    MinRawInputChars = 10
    MaxRawInputChars = 20000
    Checks <- TwoChecks
    FormInputs <- SomeInputs
    MaxReferences = 2
    MaxClicks = 3
    MaxRestarts = 1
SPECIFICATION FairSpec
INVARIANT TypeOK
INVARIANT OneCheckPerSubmission
INVARIANT PageTruthful
INVARIANT OrphansHaveACause
PROPERTY NewCheckLostOnlyToRefresh
PROPERTY RemovesWhatWasMeant
PROPERTY RefreshEnds
\* A page whose user has gone quiet stops stepping.
CHECK_DEADLOCK FALSE
