\* Triage and termination through two credentials of one host.
CONSTANTS
    g1 = g1  g2 = g2  h1 = h1  i1 = i1  i2 = i2
    triage = triage  terminate = terminate  demo = demo  linux = linux  p1 = p1
    ActionId = {1, 2, 3}
    Incident = {i1}
    Agent = {g1, g2}
    Host = {h1}
    HostOf <- OneHost
    IncidentHost <- IncidentsOnOneHost
    ActionType = {triage, terminate}
    Triage = triage
    Terminate = terminate
    Demo = demo
    LegacyActions = {}
    OsFamily = {linux}
    SupportedOs <- LinuxOnly
    Handle = {p1}
    NoHandle = NoHandle
    TTL = {1}
    ReplayWindow = 0
    ClockError = 0
    MaxTime = 1
    LedgerLimit = 4
    MaxFailures = 1
SPECIFICATION CalmSpec
INVARIANTS TerminatedWasObserved ContainmentIsEvidenceBound
