SPECIFICATION Spec
CONSTANTS
    console = console
    standard = standard
    filtered = filtered
    Session = {console}
    Console = console
    NoSession = NoSession
    User = {standard, filtered}
    NoUser = NoUser
    TokenOf <- MCTokenOf
    Configs <- MCConfigs
    MaxDuration = 63
    NoRequest = NoRequest
    NoResult = NoResult
INVARIANTS
    ReturnedPayloadIsLogged
PROPERTIES
    CleanExitWasAsked
