\* One scope in all its detail, and two scopes on screens that lag behind.
CONSTANTS
    e1 = e1  e2 = e2  e3 = e3  security = security  network = network  process = process
    x1 = x1  x2 = x2  b1 = b1  b2 = b2
    Analyst = {x1, x2}
    Event = {e1, e2, e3}
    Category = {security, network}
    CategoryOf <- Categories
    Family = {network, process}
    FamiliesOf <- Routes
    Artifact = {b1, b2}
    Version = {1, 2}
    Steps <- Growing
    Nobody = Nobody
    Nothing = Nothing
    MaxRevision = 5
SPECIFICATION PartSpec
CONSTRAINT Within
SYMMETRY RecoverySymmetry
INVARIANTS StateIsEarned RevisionIdentifies ClosedIsRecovered TotalIdentifies
