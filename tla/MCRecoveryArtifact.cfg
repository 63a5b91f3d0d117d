\* A case that is planned a second time.
CONSTANTS
    e1 = e1  e2 = e2  e3 = e3  security = security  network = network  process = process
    x1 = x1  x2 = x2  b1 = b1  b2 = b2
    Analyst = {x1, x2}
    Event = {e1, e2}
    Category = {security}
    CategoryOf <- Categories
    Family = {process}
    FamiliesOf <- Routes
    Artifact = {b1, b2}
    Version = {1}
    Steps <- Growing
    Nobody = Nobody
    Nothing = Nothing
    MaxRevision = 6
SPECIFICATION PartSpec
CONSTRAINT Within
SYMMETRY RecoverySymmetry
INVARIANTS VerifiedOnNewArtifact
