\* Two credentials of one host, with clocks that may be off, compete for one
\* capability.
CONSTANTS
    a1 = a1  a2 = a2  g1 = g1  g2 = g2  h1 = h1  i1 = i1  i2 = i2
    triage = triage  terminate = terminate  demo = demo  linux = linux  other = other  p1 = p1
    ActionId = {a1, a2}
    Incident = {i1}
    Agent = {g1, g2}
    Host = {h1}
    HostOf <- OneHost
    IncidentHost <- IncidentsOnOneHost
    ActionType = {demo}
    Triage = triage
    Terminate = terminate
    LegacyActions = {demo}
    OsFamily = {linux}
    SupportedOs <- LinuxOnly
    Handle = {}
    NoHandle = NoHandle
    TTL = {1}
    ReplayWindow = 0
    ClockError = 1
    MaxTime = 2
SPECIFICATION Spec
SYMMETRY AgentSymmetry
INVARIANTS OneActivePerTarget ApprovalAgrees RevokedIsQuiet TimelineConsistent
PROPERTIES ExecutionStartsAuthorised HistoryIsKept ContractSpec
