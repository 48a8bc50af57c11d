\* What a nil from Uninstall says of the helper.
CONSTANTS
    a1 = a1
    Admins = {a1}
    RestartDelay = 5
    heeds = {FALSE}
    NoRequest = NoRequest
    NoResult = NoResult
SPECIFICATION Spec
PROPERTY HelperIsGone
CHECK_DEADLOCK FALSE
