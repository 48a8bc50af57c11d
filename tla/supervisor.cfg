SPECIFICATION FairSpec
CONSTANTS
    console = console
    remote = remote
    standard = standard
    filtered = filtered
    builtin = builtin
    Session = {console, remote}
    Console = console
    NoSession = NoSession
    User = {standard, filtered, builtin}
    NoUser = NoUser
    TokenOf <- MCTokenOf
    Configs <- MCConfigs
    MaxDuration = 63
INVARIANTS
    TypeOK
    OnePayload
    NeverLaunchUnchecked
    ElevationIsAuthorised
    RightsSuffice
    BackoffInBounds
PROPERTIES
    StopIsHonoured
    PayloadComesUp
    BackoffShrinksOnlyWhenHealthy
    RaisedOnce
