SPECIFICATION FairSpec
CONSTANTS
    Admins = {a1}
    RestartDelay = 5
    heeds = {FALSE}
    NoRequest = NoRequest
    NoResult = NoResult
INVARIANTS
    TypeOK
    InstalledIsComplete
    StoppedHelperIsLogged
PROPERTIES
    NilMeansItStopped
    StopIsNotUndone
    FailureIsRestarted
    StopGetsThrough
    CommandReturns
    RemovalCompletes
