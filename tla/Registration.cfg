\* A registrar that answers anything, late, twice or never, and may recover.
CONSTANTS
    Status = {100, 200, 401, 403}
    Granted = {7, 10}
    Outage = TRUE
    Headerless = {FALSE}
    DefaultExpires = 12
    InitialExpires = 10
    RegisterTimeout = 2
    FailureRetry = 4
    MaxPending = 2
SPECIFICATION Spec
INVARIANTS
    TypeOK
    UiShowsRegistration
PROPERTIES
    NeverGivesUp
    Recovers
