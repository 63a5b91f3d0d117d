\* One agent whose clock is ahead by as much as the server tolerates.
CONSTANTS
    Agent = {g1}
    Nonce = {n1}
    Route = {report}
    OpenToDisabled = {report}
    Window = 2
    Lag = 0
    Lead = 2
    MaxHandling = 0
    Fractions = 2
    MaxSecond = 5
    NoRequest = NoRequest
    AuditId = {1}
    MaxTime = 1
SPECIFICATION ServerSpec
INVARIANTS AcceptedOnce
