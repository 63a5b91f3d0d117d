\* Two agents that draw the same nonce, any delivery, clocks ahead by up to a whole window;
\* five audit rows of either release under a clock that steps anywhere.
CONSTANTS
    Agent = {g1, g2}
    Nonce = {n1}
    Route = {report, event}
    OpenToDisabled = {report}
    Window = 2
    Lag = 0
    Lead = 2
    MaxHandling = 1
    Fractions = 2
    MaxSecond = 6
    NoRequest = NoRequest
    AuditId = {1, 2, 3, 4, 5}
    MaxTime = 2
SPECIFICATION ServerSpec
SYMMETRY AuthSymmetry
INVARIANTS OnceUnlessAhead OnlyRepeatsAreRefused ServedChainIsValid RefusedIsMixed
PROPERTIES DisabledStaysOut HashedStays
