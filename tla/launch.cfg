\* One launch after another in a service that opens handles of its own: a
\* launch needs four numbers at once.
CONSTANTS
    Handles = {h1, h2, h3, h4, h5, h6}
    NoHandle = NoHandle
SPECIFICATION Spec
INVARIANTS
    TypeOK
    NothingLeaks
    NothingEscapes
PROPERTIES
    ClosesOnlyOwn
CHECK_DEADLOCK FALSE
