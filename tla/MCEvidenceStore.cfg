\* Two processes that can be mistaken for each other, a protected number and a
\* protected name, and a store of two entries over two boots.
CONSTANTS
    Process = {p1, p2}
    Pid = {1, 3}
    Look = {"tool", "daemon"}
    Marker = {m1, m2}
    NoMarker = NoMarker
    NoProcess = NoProcess
    ProtectedPid = {1}
    ProtectedLook = {"daemon"}
    Ttl = 1
    MaxEntries = 2
    MaxTime = 1
    MaxBoot = 2
SYMMETRY Symmetric
SPECIFICATION Spec
INVARIANTS
    OnlyEvidencedIsTerminated
    SuccessIsExit
PROPERTIES
    HandlesLast
CHECK_DEADLOCK FALSE
