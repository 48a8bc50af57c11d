SPECIFICATION FairSpec
CONSTANTS
    heeds = {TRUE, FALSE}
    NoRequest = NoRequest
    NoResult = NoResult
INVARIANTS
    FailedExitIsOwnFailure
    FailureIsLogged
PROPERTIES
    StopIsAnswered
    GoroutineEnds
