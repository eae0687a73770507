SPECIFICATION FairSpec
CONSTANTS
    Manifests = {m1}
    Seeded = {}
    Calls = {c1, c2}
    None = None
    MaxVersion = 3
INVARIANTS
    TypeOK
    StaleButTrue
    SpinnerMeansWaiting
PROPERTIES
    AppliedAsShown
    ReadYourWrites
    SyncEnds
