CONSTANTS
    i1 = i1
    i2 = i2
    i3 = i3
    small = small
    large = large
    Items <- ThreeItems
    Models <- BothModels
    ModelOf <- MixedModels
    MaxWait = 2
SPECIFICATION FairSpec
INVARIANT TypeOK
INVARIANT OnlyEndedJobsAreRead
INVARIANT WaitBounded
INVARIANT RaisesTruthfully
PROPERTY KeepsPromise
