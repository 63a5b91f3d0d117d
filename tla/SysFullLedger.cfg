\* A ledger at its limit.
CONSTANTS
    g1 = g1  g2 = g2  h1 = h1  i1 = i1  i2 = i2
    triage = triage  terminate = terminate  demo = demo  linux = linux  p1 = p1
    ActionId = {1, 2}
    Incident = {i1, i2}
    Agent = {g1}
    Host = {h1}
    HostOf <- OneHost
    IncidentHost <- IncidentsOnOneHost
    ActionType = {demo}
    Triage = triage
    Terminate = terminate
    Demo = demo
    LegacyActions = {demo}
    OsFamily = {linux}
    SupportedOs <- LinuxOnly
    Handle = {}
    NoHandle = NoHandle
    TTL = {1}
    ReplayWindow = 0
    ClockError = 0
    MaxTime = 1
    LedgerLimit = 1
    MaxFailures = 2
SPECIFICATION CalmSpec
PROPERTIES ExecutionSettles
