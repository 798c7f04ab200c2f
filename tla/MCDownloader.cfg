SPECIFICATION Spec
CONSTANTS
    a = a
    b = b
    Runs <- TwoRuns
    LastFile = 2
    Length <- Lengths
    Sized <- FirstFile
    Concurrency = 1
    MaxCrashes = 1
INVARIANTS TypeOK PartialsAreCleared
PROPERTIES ImplementsFetch FailedRunsReturn
