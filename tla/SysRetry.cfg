\* One endpoint, one target at a time, a crash or lost message anywhere; what begins ends.
CONSTANTS
    g1 = g1  g2 = g2  h1 = h1  i1 = i1  i2 = i2
    triage = triage  terminate = terminate  demo = demo  linux = linux  p1 = p1
    ActionId = {1, 2}
    Incident = {i1}
    Agent = {g1}
    Host = {h1}
    HostOf <- OneHost
    IncidentHost <- IncidentsOnOneHost
    ActionType = {demo}
    Triage = triage
    Terminate = terminate
    Demo = demo
    LegacyActions = {demo}
    OsFamily = {linux}
    SupportedOs <- LinuxOnly
    Handle = {}
    NoHandle = NoHandle
    TTL = {1}
    ReplayWindow = 0
    ClockError = 0
    MaxTime = 2
    LedgerLimit = 4
    MaxFailures = 1
SPECIFICATION FairSystemSpec
INVARIANTS SystemTypeOK EffectIsAuthorised SuccessIsReal ReportIsRecorded IntentIsDurable AppliedAtMostOnce
PROPERTIES RecordedIsNotRerun ExecutionSettles ApprovalSettles
