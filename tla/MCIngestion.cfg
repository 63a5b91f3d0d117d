\* Four events in any order and the incidents they may be split into.
CONSTANTS
    d1 = d1  d2 = d2  d3 = d3  d4 = d4  h1 = h1  h2 = h2
    EventId = {d1, d2, d3, d4}
    Incident = {1, 2, 3}
    Host = {h1, h2}
    Enrolled = {h1}
    Content <- Various
    Window = 1
    RecentLimit = 2
    ReplayWindow = 1
    OpenSensors = TRUE
    MaxTime = 1
    Playbook = {"process_triage", "host_triage", "network_triage"}
    EvidenceOf <- Telling
    NoPlaybook = "none"
SPECIFICATION GuidedSpec
SYMMETRY EventSymmetry
INVARIANTS SummariesAgree IncidentsAreExplained AdviceFollowsEvidence
PROPERTIES NewEvidenceSurfaces LogSpec CapabilitiesStay
